---- MODULE Spec2Model ----
(***************************************************************************)
(* golang-redis-mock: the in-memory Store (storage/generic_map.go), the    *)
(* ExpiryQueue with its sweeper goroutine (storage/expiry_queue.go), and   *)
(* the goroutines that use them.                                           *)
(*                                                                         *)
(* Spec      : a connection handler issuing SET and SETEX, the sweeper and *)
(*             the consumer of its channel; the clock advances when every  *)
(*             goroutine has done all it can do within the current second. *)
(* FairSpec  : Spec with the scheduling guarantees of the Go runtime.      *)
(* SpecStore : concurrent Load / Store / Delete on GenericConcurrentMap,   *)
(*             each call in its steps: lock, body, deferred unlock.        *)
(* SpecWriters: the storage test with concurrent writers.                 *)
(* SpecParse : ParseRedisClientRequest on the bytes of one read.           *)
(* SpecConn  : handleRequest: one read decoded, its commands executed.     *)
(* SpecElem  : the parsers of the elements, each called on its own.        *)
(* SpecLoop  : ParseRedisClientRequest and parseArray, loop round by loop  *)
(*             round; FairLoop: a running call keeps running.              *)
(***************************************************************************)
EXTENDS Integers, Sequences, FiniteSets, TLC

\* ---------------------------------------------------------------- bounds
MaxTime == 3
MaxTTL == 2
MaxQueue == 3
MaxWrites == 3

Keys == {"a", "b"}
Vals == {"v1", "v2"}
Clients == {"c1", "c2", "c3"}
\* the connection handler that issues SET and SETEX next to the sweeper
Handlers == {"c1"}
\* the nil value of a Load that found nothing
Absent == "(absent)"
EmptyMap == [x \in {} |-> Absent]

VARIABLES
    now,         \* time.Now().Unix()
    internal,    \* GenericConcurrentMap.internal
    writer,      \* holder of the RWMutex write lock, or "free"
    readers,     \* goroutines holding the RWMutex read lock
    ttlMap,      \* ExpiryQueue.ttlMap
    sortedKeys,  \* ExpiryQueue.sortedKeys
    mux,         \* holder of ExpiryQueue.mux, or "free"
    sw,          \* the expireKeys goroutine: its position and locals
    cons,        \* the goroutine receiving from ExpiryQueue.out
    cl,          \* the client goroutines (connection handlers, test goroutines)
    obs,         \* per key: what the expiry machinery has been asked to do
    hist,        \* per key: the states the key has had under Store and Delete calls
    conn,        \* a connection: the bytes read, the decoded commands, the replies
    test         \* the main goroutine of a storage test

vars == <<now, internal, writer, readers, ttlMap, sortedKeys, mux, sw, cons, cl, obs, hist, conn, test>>

\* ------------------------------------------------------- Go map semantics
\* m[k] = v
MapSet(m, k, v) == [x \in DOMAIN m \cup {k} |-> IF x = k THEN v ELSE m[x]]
\* delete(m, k)
MapDelete(m, k) == [x \in DOMAIN m \ {k} |-> m[x]]
\* m[k] of a map[string]int64: the zero value when k is missing
TtlOf(m, k) == IF k \in DOMAIN m THEN m[k] ELSE 0

Range(s) == {s[n] : n \in 1..Len(s)}

\* sort.Search(n, f) with f(h) == vMap[data[h]] >= ttl; indices are Go's, 0-based
RECURSIVE SearchLoop(_, _, _, _, _)
SearchLoop(data, vMap, ttl, lo, hi) ==
    IF lo < hi
    THEN LET h == (lo + hi) \div 2
         IN  IF ~(TtlOf(vMap, data[h + 1]) >= ttl)
             THEN SearchLoop(data, vMap, ttl, h + 1, hi)
             ELSE SearchLoop(data, vMap, ttl, lo, h)
    ELSE lo
Search(data, vMap, ttl) == SearchLoop(data, vMap, ttl, 0, Len(data))

\* data = append(data, ""); copy(data[i+1:], data[i:]); data[i] = x
InsertAt(data, idx, x) == SubSeq(data, 1, idx) \o <<x>> \o SubSeq(data, idx + 1, Len(data))

\* keys[till:]
SliceFrom(keys, till) == SubSeq(keys, till + 1, Len(keys))

\* ------------------------------------------------------------------ Init
IdleClient == [pc |-> "idle", key |-> "a", val |-> Absent, ttl |-> 0, ok |-> FALSE, floor |-> 0, snap |-> EmptyMap]
\* credit: the insertKey calls made for the key less the sends of it that were received
NoObs == [exp |-> {}, plainSet |-> FALSE, sup |-> FALSE, credit |-> 0]
\* no connection is open; no test is running
NoConn == [pc |-> "closed"]
NoTest == [pc |-> "none", started |-> {}, curr |-> Absent, c |-> <<>>, seen |-> <<>>]

Init ==
    /\ now = 0
    /\ internal = EmptyMap
    /\ writer = "free"
    /\ readers = {}
    /\ ttlMap = [x \in {} |-> 0]
    /\ sortedKeys = <<>>
    /\ mux = "free"
    /\ sw = [pc |-> "init", currSec |-> 0, start |-> 0, exitFlag |-> FALSE,
             keys |-> <<>>, till |-> 1, i |-> 0, slept |-> FALSE, emitted |-> {}]
    /\ cons = [pc |-> "recv", key |-> "a"]
    /\ cl = [c \in Clients |-> IdleClient]
    /\ obs = [k \in Keys |-> NoObs]
    /\ hist = [k \in Keys |-> <<Absent>>]
    /\ conn = NoConn
    /\ test = NoTest

\* ------------------------------------------------ sync.RWMutex, sync.Mutex
\* (a Lock that does not wait for the readers)
CanLockNoReaders == writer = "free"
\* rm.Lock() can return
CanLock == writer = "free" /\ readers = {}
\* rm.RLock() can return
CanRLock == writer = "free"

\* --------------------------------------------------- GenericConcurrentMap
\* the bodies of Load, Store and Delete, between the lock and the deferred unlock
\* (ok is never set)
LoadBodyNoOk(m, k) == [value |-> IF k \in DOMAIN m THEN m[k] ELSE Absent, ok |-> FALSE]
\* value, ok := rm.internal[key]; return value, ok
LoadBody(m, k) == [value |-> IF k \in DOMAIN m THEN m[k] ELSE Absent, ok |-> k \in DOMAIN m]

\* (a key that has a value keeps it)
StoreBodyKeepFirst(m, k, v) == IF k \in DOMAIN m THEN m ELSE MapSet(m, k, v)
\* rm.internal[key] = value
StoreBody(m, k, v) == MapSet(m, k, v)

\* (the presence test dropped: delete, return true)
DeleteBodyAlwaysTrue(m, k) == [internal |-> MapDelete(m, k), ok |-> TRUE]
\* _, ok := rm.internal[key]; if !ok { return false }; delete(rm.internal, key); return true
DeleteBody(m, k) ==
    IF k \notin DOMAIN m
    THEN [internal |-> m, ok |-> FALSE]
    ELSE [internal |-> MapDelete(m, k), ok |-> TRUE]

\* ------------------------------------------------------------ ExpiryQueue
\* insertKey(x, ttl), the part between Lock and Unlock: the new ttlMap and sortedKeys
\* (the TTL of a key already in ttlMap is kept)
insertKeyKeepTTL(tm, sk, x, ttl) ==
    LET vMap == IF x \in DOMAIN tm THEN tm ELSE MapSet(tm, x, ttl)
        idx == Search(sk, vMap, ttl)
    IN  [ttlMap |-> vMap, sortedKeys |-> InsertAt(sk, idx, x)]
insertKey(tm, sk, x, ttl) ==
    LET vMap == MapSet(tm, x, ttl)
        idx == Search(sk, vMap, ttl)
    IN  [ttlMap |-> vMap, sortedKeys |-> InsertAt(sk, idx, x)]

\* eq.ttlMap[k] <= currSec
IsDue(tm, k, currSec) == TtlOf(tm, k) <= currSec

\* the clients whose SETEX has not yet inserted its key
Scheduling == {c \in Handlers : cl[c].pc \in {"storing", "wantMux"}}

\* SET k v: executeSetCommand calls gm.Store(k, v): Lock, internal[key] = value, Unlock
Set(c, k, v) ==
    /\ cl[c].pc = "idle"
    /\ CanLock
    /\ internal' = StoreBody(internal, k, v)
    /\ obs' = IF obs[k].exp # {} /\ \A e \in obs[k].exp : now < e
              THEN [obs EXCEPT ![k].plainSet = TRUE]
              ELSE [obs EXCEPT ![k] = [NoObs EXCEPT !.credit = obs[k].credit]]
    /\ UNCHANGED <<now, writer, readers, ttlMap, sortedKeys, mux, sw, cons, cl, hist, conn, test>>

\* SETEX k ttl v, first half: gm.Store(k, v) has taken the write lock and written
Setex(c, k, t, v) ==
    /\ cl[c].pc = "idle"
    /\ CanLock
    /\ Len(sortedKeys) + Cardinality(Scheduling) < MaxQueue
    /\ writer' = c
    /\ internal' = StoreBody(internal, k, v)
    /\ cl' = [cl EXCEPT ![c] = [IdleClient EXCEPT !.pc = "storing", !.key = k, !.ttl = now + t]]
    /\ obs' = [obs EXCEPT ![k] = [NoObs EXCEPT !.credit = obs[k].credit]]
    /\ UNCHANGED <<now, readers, ttlMap, sortedKeys, mux, sw, cons, hist, conn, test>>

\* SETEX, second half: Store's deferred Unlock runs and Store returns; the
\* handler goes on to insertKey(k, now + ttl), which waits for eq.mux
SetexStored(c) ==
    /\ cl[c].pc = "storing"
    /\ writer = c
    /\ writer' = "free"
    /\ cl' = [cl EXCEPT ![c].pc = "wantMux"]
    /\ UNCHANGED <<now, internal, readers, ttlMap, sortedKeys, mux, sw, cons, obs, hist, conn, test>>

\* insertKey: eq.mux.Lock(), the body, the deferred Unlock
InsertKey(c) ==
    /\ cl[c].pc = "wantMux"
    /\ mux = "free"
    /\ LET k == cl[c].key
           t == cl[c].ttl
           q == insertKey(ttlMap, sortedKeys, k, t)
       IN  /\ ttlMap' = q.ttlMap
           /\ sortedKeys' = q.sortedKeys
           /\ obs' = [obs EXCEPT ![k] = [exp |-> {t}, plainSet |-> FALSE,
                                          sup |-> k \in DOMAIN ttlMap /\ t > ttlMap[k],
                                          credit |-> obs[k].credit + 1]]
    /\ cl' = [cl EXCEPT ![c] = IdleClient]
    /\ UNCHANGED <<now, internal, writer, readers, mux, sw, cons, hist, conn, test>>

\* expireKeys, line 49: currSec := time.Now().Unix(), and the first start := ...
SwInit ==
    /\ sw.pc = "init"
    /\ sw' = [sw EXCEPT !.pc = "lock", !.currSec = now, !.start = now]
    /\ UNCHANGED <<now, internal, writer, readers, ttlMap, sortedKeys, mux, cons, cl, obs, hist, conn, test>>

\* eq.mux.Lock() and the two tests that guard the sweep
SwLock ==
    /\ sw.pc = "lock"
    /\ mux = "free"
    /\ mux' = "sweeper"
    /\ IF Len(sortedKeys) # 0 /\ IsDue(ttlMap, sortedKeys[1], sw.currSec)
       THEN sw' = [sw EXCEPT !.pc = "loop", !.keys = sortedKeys, !.till = 1, !.i = 0, !.emitted = {}]
       ELSE sw' = [sw EXCEPT !.pc = "unlock", !.keys = <<>>, !.till = 1, !.i = 0, !.emitted = {}]
    /\ UNCHANGED <<now, internal, writer, readers, ttlMap, sortedKeys, cons, cl, obs, hist, conn, test>>

\* a send of k was received: one insertKey call of k is used up (the count stops at -1)
Received(k) == [obs EXCEPT ![k].credit = IF @ > -1 THEN @ - 1 ELSE @]

\* (a blocking send, eq.out <- k without the select and its default case)
SwEmitBlocking ==
    /\ sw.pc = "loop"
    /\ sw.i < Len(sw.keys)
    /\ cons.pc = "recv"
    /\ LET k == sw.keys[sw.i + 1]
       IN  /\ IsDue(ttlMap, k, sw.currSec)
           /\ cons' = [pc |-> "got", key |-> k]
           /\ sw' = [sw EXCEPT !.i = sw.i + 1, !.emitted = sw.emitted \cup {k}]
           /\ obs' = Received(k)
           /\ ttlMap' = MapDelete(ttlMap, k)
    /\ UNCHANGED <<now, internal, writer, readers, sortedKeys, mux, cl, hist, conn, test>>

\* one turn of the for loop on a due key: the select, then delete(eq.ttlMap, k).
\* The send needs a receiver parked on the unbuffered channel; the default case
\* sets exitFlag and its break leaves the select only.
SwEmit ==
    /\ sw.pc = "loop"
    /\ sw.i < Len(sw.keys)
    /\ LET k == sw.keys[sw.i + 1]
       IN  /\ IsDue(ttlMap, k, sw.currSec)
           /\ IF cons.pc = "recv"
              THEN /\ cons' = [pc |-> "got", key |-> k]
                   /\ sw' = [sw EXCEPT !.i = sw.i + 1, !.emitted = sw.emitted \cup {k}]
                   /\ obs' = Received(k)
              ELSE /\ cons' = cons
                   /\ sw' = [sw EXCEPT !.i = sw.i + 1, !.exitFlag = TRUE]
                   /\ obs' = obs
           /\ ttlMap' = MapDelete(ttlMap, k)
    /\ UNCHANGED <<now, internal, writer, readers, sortedKeys, mux, cl, hist, conn, test>>

\* (the slice taken one past the first key that is not due)
SwBreakDropsNext ==
    /\ sw.pc = "loop"
    /\ sw.i < Len(sw.keys)
    /\ ~IsDue(ttlMap, sw.keys[sw.i + 1], sw.currSec)
    /\ sw' = [sw EXCEPT !.pc = "unlock", !.till = sw.i + 1]
    /\ sortedKeys' = SliceFrom(sw.keys, sw.i + 1)
    /\ UNCHANGED <<now, internal, writer, readers, ttlMap, mux, cons, cl, obs, hist, conn, test>>

\* the else branch: till = i; break; then eq.sortedKeys = keys[till:]
SwBreak ==
    /\ sw.pc = "loop"
    /\ sw.i < Len(sw.keys)
    /\ ~IsDue(ttlMap, sw.keys[sw.i + 1], sw.currSec)
    /\ sw' = [sw EXCEPT !.pc = "unlock", !.till = sw.i]
    /\ sortedKeys' = SliceFrom(sw.keys, sw.i)
    /\ UNCHANGED <<now, internal, writer, readers, ttlMap, mux, cons, cl, obs, hist, conn, test>>

\* the loop runs off the end of keys: till is still 1; eq.sortedKeys = keys[till:]
SwLoopEnd ==
    /\ sw.pc = "loop"
    /\ sw.i >= Len(sw.keys)
    /\ sw' = [sw EXCEPT !.pc = "unlock"]
    /\ sortedKeys' = SliceFrom(sw.keys, sw.till)
    /\ UNCHANGED <<now, internal, writer, readers, ttlMap, mux, cons, cl, obs, hist, conn, test>>

\* eq.mux.Unlock(); time.Sleep begins
SwUnlock ==
    /\ sw.pc = "unlock"
    /\ mux = "sweeper"
    /\ mux' = "free"
    /\ sw' = [sw EXCEPT !.pc = "sleep", !.slept = FALSE, !.keys = <<>>, !.i = 0, !.till = 1, !.emitted = {}]
    /\ UNCHANGED <<now, internal, writer, readers, ttlMap, sortedKeys, cons, cl, obs, hist, conn, test>>

\* (the loop's exit test dropped: the sweeper goes round again)
SwWakeNoExit ==
    /\ sw.pc = "sleep"
    /\ sw.slept
    /\ sw' = [sw EXCEPT !.pc = "lock", !.currSec = sw.currSec + (now - sw.start),
                        !.start = now, !.slept = FALSE]
    /\ UNCHANGED <<now, internal, writer, readers, ttlMap, sortedKeys, mux, cons, cl, obs, hist, conn, test>>

\* the Sleep is over: currSec += now - start; break on exitFlag, else start := now
SwWake ==
    /\ sw.pc = "sleep"
    /\ sw.slept
    /\ sw' = [sw EXCEPT !.pc = IF sw.exitFlag THEN "done" ELSE "lock",
                        !.currSec = sw.currSec + (now - sw.start),
                        !.start = now, !.slept = FALSE]
    /\ UNCHANGED <<now, internal, writer, readers, ttlMap, sortedKeys, mux, cons, cl, obs, hist, conn, test>>

Sweeper == SwInit \/ SwLock \/ SwEmit \/ SwBreak \/ SwLoopEnd \/ SwUnlock \/ SwWake

\* the consumer took a key from eq.out and calls Store.Delete(k): Lock, delete,
\* Unlock; then it receives again
ConsumerDelete ==
    /\ cons.pc = "got"
    /\ CanLock
    /\ internal' = DeleteBody(internal, cons.key).internal
    /\ cons' = [pc |-> "recv", key |-> "a"]
    /\ UNCHANGED <<now, writer, readers, ttlMap, sortedKeys, mux, sw, cl, obs, hist, conn, test>>

\* every goroutine has done what it does within the current second: the sweeper
\* sleeps, the consumer is parked on eq.out, no command is half-way
Quiescent ==
    /\ (sw.pc = "sleep" /\ ~sw.slept) \/ sw.pc = "done"
    /\ cons.pc = "recv"
    /\ \A c \in Clients : cl[c].pc = "idle"

\* a second of wall-clock time passes; a sleeping sweeper's second is over.
\* The steps of the goroutines take no time against the one-second period.
Tick ==
    /\ Quiescent
    /\ now < MaxTime
    /\ now' = now + 1
    /\ sw' = IF sw.pc = "sleep" THEN [sw EXCEPT !.slept = TRUE] ELSE sw
    /\ UNCHANGED <<internal, writer, readers, ttlMap, sortedKeys, mux, cons, cl, obs, hist, conn, test>>

Commands ==
    \/ \E c \in Handlers, k \in Keys : Set(c, k, "v2")
    \/ \E c \in Handlers, k \in Keys, t \in 1..MaxTTL : Setex(c, k, t, "v1")
    \/ \E c \in Handlers : SetexStored(c)
    \/ \E c \in Handlers : InsertKey(c)

Next == Commands \/ Sweeper \/ ConsumerDelete \/ Tick

Spec == Init /\ [][Next]_vars

\* the guarantees of the Go scheduler and of sync.Mutex (no goroutine that can
\* run is left waiting for ever), and time goes on
FairSpec ==
    /\ Spec
    /\ WF_vars(Sweeper)
    /\ WF_vars(ConsumerDelete)
    /\ \A c \in Handlers : WF_vars(SetexStored(c) \/ InsertKey(c))
    /\ WF_vars(Tick)

\* ------------------------------------- GenericConcurrentMap under its callers
\* Each call is taken in its steps: the call, the lock, the body, the deferred
\* unlock with the return. hist[k] grows by one state with every Store of k and
\* every Delete that finds k; floor is the length of hist[k] when a Load is
\* called, snap is the map as a Delete finds it when it gets the write lock.
Last(h) == h[Len(h)]
Applied == Len(hist["a"]) + Len(hist["b"]) - Cardinality(Keys)
Writing == {c \in Clients : cl[c].pc \in {"store.lock", "store.body", "delete.lock", "delete.body"}}

\* the goroutines between rm.Lock() and the deferred rm.Unlock() of Store or Delete
InStoreOrDelete == {c \in Clients : cl[c].pc \in {"store.body", "store.unlock", "delete.body", "delete.unlock"}}
\* the goroutines between rm.RLock() and the deferred rm.RUnlock() of Load
InLoad == {c \in Clients : cl[c].pc \in {"load.body", "load.runlock"}}

StoreCall(c, k, v) ==
    /\ cl[c].pc = "idle"
    /\ Applied + Cardinality(Writing) < MaxWrites
    /\ cl' = [cl EXCEPT ![c] = [IdleClient EXCEPT !.pc = "store.lock", !.key = k, !.val = v]]
    /\ UNCHANGED <<now, internal, writer, readers, ttlMap, sortedKeys, mux, sw, cons, obs, hist, conn, test>>

\* rm.Lock()
StoreLock(c) ==
    /\ cl[c].pc = "store.lock"
    /\ CanLock
    /\ writer' = c
    /\ cl' = [cl EXCEPT ![c].pc = "store.body"]
    /\ UNCHANGED <<now, internal, readers, ttlMap, sortedKeys, mux, sw, cons, obs, hist, conn, test>>

StoreWrite(c) ==
    /\ cl[c].pc = "store.body"
    /\ internal' = StoreBody(internal, cl[c].key, cl[c].val)
    /\ hist' = [hist EXCEPT ![cl[c].key] = Append(@, cl[c].val)]
    /\ cl' = [cl EXCEPT ![c].pc = "store.unlock"]
    /\ UNCHANGED <<now, writer, readers, ttlMap, sortedKeys, mux, sw, cons, obs, conn, test>>

\* the deferred rm.Unlock(); Store returns
StoreUnlock(c) ==
    /\ cl[c].pc = "store.unlock"
    /\ writer' = "free"
    /\ cl' = [cl EXCEPT ![c] = IdleClient]
    /\ UNCHANGED <<now, internal, readers, ttlMap, sortedKeys, mux, sw, cons, obs, hist, conn, test>>

LoadCall(c, k) ==
    /\ cl[c].pc = "idle"
    /\ cl' = [cl EXCEPT ![c] = [IdleClient EXCEPT !.pc = "load.rlock", !.key = k, !.floor = Len(hist[k])]]
    /\ UNCHANGED <<now, internal, writer, readers, ttlMap, sortedKeys, mux, sw, cons, obs, hist, conn, test>>

\* rm.RLock()
LoadRLock(c) ==
    /\ cl[c].pc = "load.rlock"
    /\ CanRLock
    /\ readers' = readers \cup {c}
    /\ cl' = [cl EXCEPT ![c].pc = "load.body"]
    /\ UNCHANGED <<now, internal, writer, ttlMap, sortedKeys, mux, sw, cons, obs, hist, conn, test>>

LoadRead(c) ==
    /\ cl[c].pc = "load.body"
    /\ LET r == LoadBody(internal, cl[c].key)
       IN  cl' = [cl EXCEPT ![c].pc = "load.runlock", ![c].val = r.value, ![c].ok = r.ok]
    /\ UNCHANGED <<now, internal, writer, readers, ttlMap, sortedKeys, mux, sw, cons, obs, hist, conn, test>>

\* the deferred rm.RUnlock(); Load returns
LoadRUnlock(c) ==
    /\ cl[c].pc = "load.runlock"
    /\ readers' = readers \ {c}
    /\ cl' = [cl EXCEPT ![c] = IdleClient]
    /\ UNCHANGED <<now, internal, writer, ttlMap, sortedKeys, mux, sw, cons, obs, hist, conn, test>>

DeleteCall(c, k) ==
    /\ cl[c].pc = "idle"
    /\ Applied + Cardinality(Writing) < MaxWrites
    /\ cl' = [cl EXCEPT ![c] = [IdleClient EXCEPT !.pc = "delete.lock", !.key = k]]
    /\ UNCHANGED <<now, internal, writer, readers, ttlMap, sortedKeys, mux, sw, cons, obs, hist, conn, test>>

\* rm.Lock()
DeleteLock(c) ==
    /\ cl[c].pc = "delete.lock"
    /\ CanLock
    /\ writer' = c
    /\ cl' = [cl EXCEPT ![c].pc = "delete.body", ![c].snap = internal]
    /\ UNCHANGED <<now, internal, readers, ttlMap, sortedKeys, mux, sw, cons, obs, hist, conn, test>>

DeleteWrite(c) ==
    /\ cl[c].pc = "delete.body"
    /\ LET r == DeleteBody(internal, cl[c].key)
       IN  /\ internal' = r.internal
           /\ cl' = [cl EXCEPT ![c].pc = "delete.unlock", ![c].ok = r.ok]
    /\ hist' = IF cl[c].key \in DOMAIN internal
               THEN [hist EXCEPT ![cl[c].key] = Append(@, Absent)]
               ELSE hist
    /\ UNCHANGED <<now, writer, readers, ttlMap, sortedKeys, mux, sw, cons, obs, conn, test>>

\* the deferred rm.Unlock(); Delete returns
DeleteUnlock(c) ==
    /\ cl[c].pc = "delete.unlock"
    /\ writer' = "free"
    /\ cl' = [cl EXCEPT ![c] = IdleClient]
    /\ UNCHANGED <<now, internal, readers, ttlMap, sortedKeys, mux, sw, cons, obs, hist, conn, test>>

StoreOps ==
    \/ \E c \in Clients, k \in Keys, v \in Vals : StoreCall(c, k, v)
    \/ \E c \in Clients : StoreLock(c) \/ StoreWrite(c) \/ StoreUnlock(c)

LoadOps ==
    \/ \E c \in Clients, k \in Keys : LoadCall(c, k)
    \/ \E c \in Clients : LoadRLock(c) \/ LoadRead(c) \/ LoadRUnlock(c)

DeleteOps ==
    \/ \E c \in Clients, k \in Keys : DeleteCall(c, k)
    \/ \E c \in Clients : DeleteLock(c) \/ DeleteWrite(c) \/ DeleteUnlock(c)

NextStore == StoreOps \/ LoadOps \/ DeleteOps

SpecStore == Init /\ [][NextStore]_vars


\* --------------------------------- TestConcurrentMapWriteMultipleWriters
\* main starts writer(m, done, "foo", "lol") and writer(m, done, "foo", "lol2"),
\* takes a value from done, starts a reader and compares what it loads; then
\* once more. done is unbuffered, c has room for one value. test.seen keeps,
\* for every comparison, the value taken from done and the value loaded.
TestKey == "a"
TestReader == "c3"
WriterValue == [c \in {"c1", "c2"} |-> IF c = "c1" THEN "v1" ELSE "v2"]

StartTest == [NoTest EXCEPT !.pc = "go"]

\* m := NewGenericConcurrentMap(); done := make(chan string); c := make(chan string, 1)
TestStart ==
    /\ test.pc = "none"
    /\ test' = StartTest
    /\ UNCHANGED <<now, internal, writer, readers, ttlMap, sortedKeys, mux, sw, cons, cl, obs, hist, conn>>

\* go writer(m, done, key, value): the new goroutine is about to call Store
TestGoWriter(w) ==
    /\ test.pc = "go"
    /\ w \in DOMAIN WriterValue
    /\ w \notin test.started
    /\ test.started = {} => w = "c1"
    /\ cl' = [cl EXCEPT ![w] = [IdleClient EXCEPT !.pc = "store.lock", !.key = TestKey, !.val = WriterValue[w]]]
    /\ test' = [test EXCEPT !.started = test.started \cup {w},
                            !.pc = IF test.started \cup {w} = DOMAIN WriterValue THEN "recv" ELSE "go"]
    /\ UNCHANGED <<now, internal, writer, readers, ttlMap, sortedKeys, mux, sw, cons, obs, hist, conn>>

\* writer: Store's deferred Unlock has run and Store has returned; next is c <- value
WriterStored(w) ==
    /\ w \in test.started
    /\ cl[w].pc = "store.unlock"
    /\ writer' = "free"
    /\ cl' = [cl EXCEPT ![w].pc = "send"]
    /\ UNCHANGED <<now, internal, readers, ttlMap, sortedKeys, mux, sw, cons, obs, hist, conn, test>>

\* curr = <-done, meeting the send of writer w
TestRecvDone(w) ==
    /\ test.pc = "recv"
    /\ cl[w].pc = "send"
    /\ cl' = [cl EXCEPT ![w] = IdleClient]
    /\ test' = [test EXCEPT !.pc = "goreader", !.curr = cl[w].val]
    /\ UNCHANGED <<now, internal, writer, readers, ttlMap, sortedKeys, mux, sw, cons, obs, hist, conn>>

\* go reader(t, m, c, key): the new goroutine is about to call Load
TestGoReader ==
    /\ test.pc = "goreader"
    /\ cl' = [cl EXCEPT ![TestReader] = [IdleClient EXCEPT !.pc = "load.rlock", !.key = TestKey,
                                                          !.floor = Len(hist[TestKey])]]
    /\ test' = [test EXCEPT !.pc = "assert"]
    /\ UNCHANGED <<now, internal, writer, readers, ttlMap, sortedKeys, mux, sw, cons, obs, hist, conn>>

\* reader: Load's deferred RUnlock has run and Load has returned; c <- v
ReaderSend ==
    /\ cl[TestReader].pc = "load.runlock"
    /\ test.pc = "assert"
    /\ readers' = readers \ {TestReader}
    /\ cl' = [cl EXCEPT ![TestReader] = IdleClient]
    /\ test' = [test EXCEPT !.c = Append(test.c, cl[TestReader].val)]
    /\ UNCHANGED <<now, internal, writer, ttlMap, sortedKeys, mux, sw, cons, obs, hist, conn>>

\* assert.Equal(t, <-c, curr)
TestAssert ==
    /\ test.pc = "assert"
    /\ test.c # <<>>
    /\ test' = [test EXCEPT !.c = Tail(test.c),
                            !.seen = Append(test.seen, [curr |-> test.curr, got |-> Head(test.c)]),
                            !.pc = IF Len(test.seen) = 0 THEN "recv" ELSE "done"]
    /\ UNCHANGED <<now, internal, writer, readers, ttlMap, sortedKeys, mux, sw, cons, cl, obs, hist, conn>>

NextWriters ==
    \/ TestStart
    \/ \E w \in DOMAIN WriterValue : TestGoWriter(w)
    \/ \E w \in DOMAIN WriterValue : StoreLock(w) \/ StoreWrite(w)
    \/ \E w \in DOMAIN WriterValue : WriterStored(w)
    \/ \E w \in DOMAIN WriterValue : TestRecvDone(w)
    \/ TestGoReader
    \/ LoadRLock(TestReader) \/ LoadRead(TestReader)
    \/ ReaderSend
    \/ TestAssert

SpecWriters == Init /\ [][NextWriters]_vars

\* ------------------------------------------------------- RESP: the decoder
\* A byte stream is a sequence of one-character strings; CR and LF are written
\* "CR" and "LF". A Go string is the sequence of its bytes.
crByte == "CR"
nlByte == "LF"
whitespaceByte == " "
stringStartByte == "+"
integerStartByte == ":"
bulkStringStartByte == "$"
arrayStartByte == "*"
errorStartByte == "-"
InvalidByteSeq == "IVBYSEQ"
DefaultErrorKeyword == "ERR"
MaxBulkSizeLength == 1048576

\* F applied to the value of v, which is computed once
With(v, F(_)) == CHOOSE r \in {F(x) : x \in {v}} : TRUE

\* bytes[n:]
BytesFrom(bytes, n) == SubSeq(bytes, n + 1, Len(bytes))

\* the values of resp/types.go; Nil is the nil interface value of an unset slot
Nil == [type |-> "nil"]
NewString(s) == [type |-> "String", value |-> s]
NewInteger(n) == [type |-> "Integer", value |-> n]
NewNullBulkString == [type |-> "BulkString", isNullValue |-> TRUE, value |-> <<>>]
NewBulkString(s) == [type |-> "BulkString", isNullValue |-> FALSE, value |-> s]
NewRedisError(ecode, message) == [type |-> "RedisError", ecode |-> ecode, message |-> message]
EmptyRedisError == NewRedisError("", "")
\* NewDefaultRedisError(message)
NewDefaultRedisError(message) == NewRedisError(DefaultErrorKeyword, message)

\* what a parser hands back: a value and the bytes consumed, or a panic.
\* A panic carries a RedisError (kind "RedisError"), a string (kind "string"),
\* an error value (kind "error") or a runtime error (kind "runtime").
NoPanic == [kind |-> "none", ecode |-> "", message |-> ""]
Panic(kind, ecode, message) == [kind |-> kind, ecode |-> ecode, message |-> message]
Parsed(v, n) == [panic |-> NoPanic, val |-> v, read |-> n]
Panicked(p) == [panic |-> p, val |-> Nil, read |-> 0]

\* (the asserts panicking with a plain string)
assertStartPlainPanic(bytes, symbol) ==
    IF Len(bytes) = 0
    THEN Panic("string", "", "Cannot parse empty byte stream")
    ELSE IF bytes[1] # symbol
         THEN Panic("string", "", "Expected start byte")
         ELSE NoPanic
\* assertNonEmptyStream, then assertStartSymbol(bytes[0], symbol): the panic, or NoPanic
assertStart(bytes, symbol) ==
    IF Len(bytes) = 0
    THEN Panic("RedisError", InvalidByteSeq, "Cannot parse empty byte stream")
    ELSE IF bytes[1] # symbol
         THEN Panic("RedisError", InvalidByteSeq, "Expected start byte")
         ELSE NoPanic

\* strconv.Atoi on the strings the bounded inputs can hold (no overflow of int)
Digits == <<"0", "1", "2", "3", "4", "5", "6", "7", "8", "9">>
DigitVal(c) == (CHOOSE n \in 1..Len(Digits) : Digits[n] = c) - 1
RECURSIVE DigitsValue(_, _)
DigitsValue(s, acc) == IF s = <<>> THEN acc ELSE DigitsValue(Tail(s), acc * Len(Digits) + DigitVal(Head(s)))
Atoi(str) ==
    LET body == IF str # <<>> /\ Head(str) \in {"+", "-"} THEN Tail(str) ELSE str
    IN  IF body = <<>> \/ \E n \in 1..Len(body) : body[n] \notin Range(Digits)
        THEN [err |-> TRUE, conv |-> 0]
        ELSE [err |-> FALSE,
              conv |-> IF Head(str) = "-" THEN 0 - DigitsValue(body, 0) ELSE DigitsValue(body, 0)]

\* strconv.Itoa
RECURSIVE natDigits(_)
natDigits(n) == IF n < Len(Digits) THEN <<Digits[n + 1]>> ELSE Append(natDigits(n \div Len(Digits)), Digits[(n % Len(Digits)) + 1])
Itoa(n) == IF n < 0 THEN <<"-">> \o natDigits(0 - n) ELSE natDigits(n)

\* readUntilCRLF: the for loop from index i (Go's, 0-based)
\* (a loop that keeps the CR bytes)
RECURSIVE readLoopKeepsCR(_, _, _, _)
readLoopKeepsCR(bytes, i, str, read) ==
    IF i >= Len(bytes)
    THEN [str |-> str, read |-> read]
    ELSE LET c == bytes[i + 1]
         IN  IF c = nlByte
             THEN [str |-> str, read |-> read + 1]
             ELSE readLoopKeepsCR(bytes, i + 1, Append(str, c), read + 1)
RECURSIVE readLoop(_, _, _, _)
readLoop(bytes, i, str, read) ==
    IF i >= Len(bytes)
    THEN [str |-> str, read |-> read]
    ELSE LET c == bytes[i + 1]
         IN  IF c = nlByte
             THEN [str |-> str, read |-> read + 1]
             ELSE readLoop(bytes, i + 1, IF c # crByte THEN Append(str, c) ELSE str, read + 1)
\* (a read that does not count the bytes it visits)
readUntilCRLFNoCount(bytes, excludeFirstByte) ==
    [str |-> readLoop(bytes, IF excludeFirstByte /\ Len(bytes) > 0 THEN 1 ELSE 0, <<>>, 0).str,
     read |-> 0]
readUntilCRLF(bytes, excludeFirstByte) ==
    IF excludeFirstByte /\ Len(bytes) > 0
    THEN readLoop(bytes, 1, <<>>, 1)
    ELSE readLoop(bytes, 0, <<>>, 0)

parseSimpleString(bytes) ==
    LET p == assertStart(bytes, stringStartByte)
        r == readUntilCRLF(bytes, TRUE)
    IN  IF p # NoPanic THEN Panicked(p) ELSE Parsed(NewString(r.str), r.read)

\* parseErrorMessage: the for loop; it hands back i + 1
RECURSIVE errorLoop(_, _, _, _, _)
errorLoop(bytes, i, ecode, message, str) ==
    IF i >= Len(bytes)
    THEN Parsed(NewRedisError(ecode, message), i + 1)
    ELSE LET c == bytes[i + 1]
         IN  IF c = whitespaceByte /\ ecode = <<>>
             THEN errorLoop(bytes, i + 1, str, message, <<>>)
             ELSE IF c = nlByte
                  THEN IF ecode = <<>>
                       THEN Parsed(NewRedisError(str, message), i + 1)
                       ELSE Parsed(NewRedisError(ecode, str), i + 1)
                  ELSE errorLoop(bytes, i + 1, ecode, message,
                                 IF c # crByte THEN Append(str, c) ELSE str)
parseErrorMessage(bytes) ==
    LET p == assertStart(bytes, errorStartByte)
    IN  IF p # NoPanic THEN Panicked(p) ELSE errorLoop(bytes, 1, <<>>, <<>>, <<>>)

parseIntegers(bytes) ==
    LET p == assertStart(bytes, integerStartByte)
        r == readUntilCRLF(bytes, TRUE)
        a == Atoi(r.str)
    IN  IF p # NoPanic THEN Panicked(p)
        ELSE IF a.err THEN Panicked(Panic("string", "", "Invalid integer sequence supplied"))
        ELSE Parsed(NewInteger(a.conv), r.read)

\* (the null bulk string also reading a payload line)
parseBulkStringNullReadsLine(bytes) ==
    LET p == assertStart(bytes, bulkStringStartByte)
        ri == parseIntegers([bytes EXCEPT ![1] = integerStartByte])
        n == ri.val.value
        rs == With(BytesFrom(bytes, ri.read), LAMBDA rest : readUntilCRLF(rest, FALSE))
    IN  IF p # NoPanic THEN Panicked(p)
        ELSE IF ri.panic # NoPanic THEN ri
        ELSE IF n > MaxBulkSizeLength
             THEN Panicked(Panic("string", "", "Bulk string length exceeds maximum allowed size"))
        ELSE IF n < -1
             THEN Panicked(Panic("string", "", "Bulk string length must be greater than -1"))
        ELSE IF n = 0 THEN Parsed(NewBulkString(<<>>), ri.read)
        ELSE IF n = -1 THEN Parsed(NewNullBulkString, ri.read + rs.read)
        ELSE IF Len(rs.str) # n
             THEN Panicked(Panic("string", "", "Bulk string length does not match expected length"))
        ELSE Parsed(NewBulkString(rs.str), ri.read + rs.read)
\* (the empty bulk string also reading its payload line)
parseBulkStringEmptyReadsLine(bytes) ==
    LET p == assertStart(bytes, bulkStringStartByte)
        ri == parseIntegers([bytes EXCEPT ![1] = integerStartByte])
        n == ri.val.value
        rs == With(BytesFrom(bytes, ri.read), LAMBDA rest : readUntilCRLF(rest, FALSE))
    IN  IF p # NoPanic THEN Panicked(p)
        ELSE IF ri.panic # NoPanic THEN ri
        ELSE IF n > MaxBulkSizeLength
             THEN Panicked(Panic("string", "", "Bulk string length exceeds maximum allowed size"))
        ELSE IF n < -1
             THEN Panicked(Panic("string", "", "Bulk string length must be greater than -1"))
        ELSE IF n = -1 THEN Parsed(NewNullBulkString, ri.read)
        ELSE IF Len(rs.str) # n
             THEN Panicked(Panic("string", "", "Bulk string length does not match expected length"))
        ELSE Parsed(NewBulkString(rs.str), ri.read + rs.read)
parseBulkString(bytes) ==
    LET p == assertStart(bytes, bulkStringStartByte)
        ri == parseIntegers([bytes EXCEPT ![1] = integerStartByte])
        n == ri.val.value
        rs == With(BytesFrom(bytes, ri.read), LAMBDA rest : readUntilCRLF(rest, FALSE))
    IN  IF p # NoPanic THEN Panicked(p)
        ELSE IF ri.panic # NoPanic THEN ri
        ELSE IF n > MaxBulkSizeLength
             THEN Panicked(Panic("string", "", "Bulk string length exceeds maximum allowed size"))
        ELSE IF n < -1
             THEN Panicked(Panic("string", "", "Bulk string length must be greater than -1"))
        ELSE IF n = 0 THEN Parsed(NewBulkString(<<>>), ri.read)
        ELSE IF n = -1 THEN Parsed(NewNullBulkString, ri.read)
        ELSE IF Len(rs.str) # n
             THEN Panicked(Panic("string", "", "Bulk string length does not match expected length"))
        ELSE Parsed(NewBulkString(rs.str), ri.read + rs.read)

\* NewArray(numberOfItems): the items, every slot nil
NewArray(numberOfItems) == [n \in 1..numberOfItems |-> Nil]

\* (a switch that reads an unknown start byte as a simple string's)
parseElementLenient(bytes) ==
    LET first == bytes[1]
    IN  IF first = integerStartByte THEN parseIntegers(bytes)
        ELSE IF first = bulkStringStartByte THEN parseBulkString(bytes)
        ELSE IF first = errorStartByte THEN parseErrorMessage(bytes)
        ELSE parseSimpleString([bytes EXCEPT ![1] = stringStartByte])
\* the switch on the first byte inside parseArray
parseElement(bytes) ==
    LET first == bytes[1]
    IN  IF first = stringStartByte THEN parseSimpleString(bytes)
        ELSE IF first = integerStartByte THEN parseIntegers(bytes)
        ELSE IF first = bulkStringStartByte THEN parseBulkString(bytes)
        ELSE IF first = errorStartByte THEN parseErrorMessage(bytes)
        ELSE Panicked(Panic("string", "", "Unknown start byte"))

\* parseArray: the for loop
RECURSIVE arrayLoop(_, _, _, _)
arrayLoop(bytes, counter, items, bytesRead) ==
    IF Len(bytes) = 0
    THEN Parsed(items, bytesRead)
    ELSE IF counter >= Len(items)
    THEN Panicked(Panic("string", "", "RESP Array index exceeds specified capacity"))
    ELSE With(parseElement(bytes), LAMBDA e :
             IF e.panic # NoPanic THEN Panicked(e.panic)
             ELSE IF e.read > Len(bytes)
             THEN Panicked(Panic("runtime", "", "slice bounds out of range"))
             ELSE With(<<BytesFrom(bytes, e.read), [items EXCEPT ![counter + 1] = e.val], bytesRead + e.read>>,
                       LAMBDA s : arrayLoop(s[1], counter + 1, s[2], s[3])))

parseArray(bytes) ==
    LET p == assertStart(bytes, arrayStartByte)
    IN  IF p # NoPanic THEN Panicked(p)
        ELSE With(parseIntegers([bytes EXCEPT ![1] = integerStartByte]), LAMBDA ri :
                 IF ri.panic # NoPanic THEN Panicked(ri.panic)
                 ELSE IF ri.val.value < 0
                      THEN Panicked(Panic("error", "", "Cannot allocate Array"))
                 ELSE With(<<BytesFrom(bytes, ri.read), NewArray(ri.val.value)>>,
                           LAMBDA s : arrayLoop(s[1], 0, s[2], ri.read)))

\* getNextArrayStartByteIndex: the first '*' from offset 1, or len(bytes); Go's index
getNextArrayStartByteIndex(bytes) ==
    LET at == {n \in 1..(Len(bytes) - 1) : bytes[n + 1] = arrayStartByte}
    IN  IF at = {} THEN Len(bytes) ELSE CHOOSE n \in at : \A m \in at : n <= m

\* the deferred recover of ParseRedisClientRequest: finalErr for a panic
recoverDropsCommands(commands, p) ==
    [commands |-> <<>>, totalBytes |-> 0,
     finalErr |-> IF p.kind = "RedisError" THEN NewRedisError(p.ecode, p.message)
                  ELSE IF p.kind = "string" THEN NewRedisError(DefaultErrorKeyword, p.message)
                  ELSE NewDefaultRedisError(p.message)]
recover(commands, p) ==
    [commands |-> commands, totalBytes |-> 0,
     finalErr |-> IF p.kind = "RedisError" THEN NewRedisError(p.ecode, p.message)
                  ELSE IF p.kind = "string" THEN NewRedisError(DefaultErrorKeyword, p.message)
                  ELSE NewDefaultRedisError(p.message)]

\* ParseRedisClientRequest: the for loop
RECURSIVE requestLoop(_, _, _)
requestLoop(bytes, commands, totalBytesRead) ==
    IF Len(bytes) = 0
    THEN [commands |-> commands, totalBytes |-> totalBytesRead, finalErr |-> EmptyRedisError]
    ELSE LET asbIndex == getNextArrayStartByteIndex(bytes)
         IN  With(SubSeq(bytes, 1, asbIndex), LAMBDA chunk : With(parseArray(chunk), LAMBDA r :
                 IF r.panic # NoPanic THEN recover(commands, r.panic)
                 ELSE IF r.read > 0
                 THEN With(<<BytesFrom(bytes, r.read), Append(commands, r.val), totalBytesRead + r.read>>,
                           LAMBDA s : requestLoop(s[1], s[2], s[3]))
                 ELSE [commands |-> commands, totalBytes |-> totalBytesRead, finalErr |-> EmptyRedisError]))

ParseRedisClientRequest(bytes) == With(bytes, LAMBDA b : requestLoop(b, <<>>, 0))


\* ------------------------------------- ParseRedisClientRequest on its inputs
\* The bytes of one read are the wire form of a sequence of elements. An element
\* is a first line (its start byte, then head, then CR LF) and, for a bulk
\* string with a payload, a second line (body, then CR LF); a cut element is the
\* end of a stream that stops before its CR LF.
MaxElems == 3

CRLF == <<crByte, nlByte>>
Elem(tag, head) == [tag |-> tag, head |-> head, hasBody |-> FALSE, body |-> <<>>, cut |-> FALSE]
Bulk(head, body) == [tag |-> bulkStringStartByte, head |-> head, hasBody |-> TRUE, body |-> body, cut |-> FALSE]
CutElem(tag, head) == [tag |-> tag, head |-> head, hasBody |-> FALSE, body |-> <<>>, cut |-> TRUE]

Wire(e) ==
    <<e.tag>> \o e.head \o (IF e.cut THEN <<>> ELSE CRLF) \o (IF e.hasBody THEN e.body \o CRLF ELSE <<>>)
RECURSIVE WireAll(_)
WireAll(elems) == IF elems = <<>> THEN <<>> ELSE Wire(Head(elems)) \o WireAll(Tail(elems))

\* the elements the inputs are made of
ArrayHeaders ==
    {Elem(arrayStartByte, <<"0">>), Elem(arrayStartByte, <<"1">>), Elem(arrayStartByte, <<"2">>),
     Elem(arrayStartByte, <<"-", "1">>)}
GoodBulks ==
    {Bulk(<<"1">>, <<"a">>), Bulk(<<"0">>, <<>>), Bulk(<<"1">>, <<arrayStartByte>>),
     Bulk(<<"1">>, <<crByte>>)}
OtherElems ==
    {Elem(bulkStringStartByte, <<"-", "1">>),
     Bulk(<<"2">>, <<"a">>),
     Elem(bulkStringStartByte, <<"-", "2">>),
     Bulk(<<"1", "0", "4", "8", "5", "7", "7">>, <<"a">>),
     Elem(integerStartByte, <<"7">>),
     Elem(integerStartByte, <<"x">>),
     Elem(stringStartByte, <<"a">>),
     Elem(errorStartByte, <<"E", whitespaceByte, "m">>),
     CutElem(errorStartByte, <<"E">>),
     Elem("?", <<"a">>)}
Elems == ArrayHeaders \cup GoodBulks \cup OtherElems

SeqsUpTo(S, n) == UNION {[1..m -> S] : m \in 0..n}

\* what the handler holds after scanner.Scan(): the bytes of one read
ScanOf(elems) ==
    [pc |-> "read", elems |-> elems, input |-> WireAll(elems),
     commands |-> <<>>, totalBytes |-> 0, finalErr |-> EmptyRedisError,
     next |-> 1, replies |-> <<>>, log |-> <<>>]

\* scanner.Scan(); bytes := scanner.Bytes()
ScanElems ==
    /\ conn.pc = "closed"
    /\ \E elems \in SeqsUpTo(Elems, MaxElems) : conn' = ScanOf(elems)
    /\ UNCHANGED <<now, internal, writer, readers, ttlMap, sortedKeys, mux, sw, cons, cl, obs, hist, test>>

\* ras, _, f := resp.ParseRedisClientRequest(bytes)
Parse ==
    /\ conn.pc = "read"
    /\ \E r \in {ParseRedisClientRequest(conn.input)} :
           conn' = [conn EXCEPT !.pc = "parsed", !.commands = r.commands,
                                !.totalBytes = r.totalBytes, !.finalErr = r.finalErr]
    /\ UNCHANGED <<now, internal, writer, readers, ttlMap, sortedKeys, mux, sw, cons, cl, obs, hist, test>>

NextParse == ScanElems \/ Parse
SpecParse == Init /\ [][NextParse]_vars


\* ------------------------------------------------------ the string commands
getCommand == <<"G", "E", "T">>
setCommand == <<"S", "E", "T">>
getSetCommand == <<"G", "E", "T", "S", "E", "T">>
deleteCommand == <<"D", "E", "L">>
redisOk == NewString(<<"O", "K">>)
NilText == <<"(", "n", "i", "l", ")">>

\* ToString() of a value of resp/types.go
RespToString(v) ==
    IF v.type = "String" THEN v.value
    ELSE IF v.type = "Integer" THEN Itoa(v.value)
    ELSE IF v.type = "BulkString" THEN (IF v.isNullValue THEN NilText ELSE v.value)
    ELSE v.ecode \o <<"{">> \o v.message \o <<"}">>

\* storage.NewGCMString, storage.NewGCMInteger: both hand back a pointer
NewGCMString(s) == [type |-> "*GCMStringType", value |-> s]
NewGCMInteger(i) == [type |-> "*GCMIntegerType", value |-> i]

\* what a command hands back: reply and error, the map it leaves, or a panic
Replied(reply, err, m) == [panic |-> FALSE, reply |-> reply, err |-> err, internal |-> m]
Faulted(m) == [panic |-> TRUE, reply |-> Nil, err |-> EmptyRedisError, internal |-> m]

\* executeGetCommand: the stored value is a pointer, the type switch names the struct types
executeGetCommand(items, m) ==
    LET key == items[2]
        l == LoadBody(m, RespToString(key))
    IN  IF Len(items) = 1
        THEN Replied(Nil, NewDefaultRedisError("wrong number of arguments for (get) command"), m)
        ELSE IF key.type = "String" THEN Replied(Nil, EmptyRedisError, m)
        ELSE IF key.type = "BulkString"
        THEN IF ~l.ok THEN Replied(NewNullBulkString, EmptyRedisError, m)
             ELSE IF l.value.type = "GCMStringType"
             THEN Replied(NewBulkString(l.value.value), EmptyRedisError, m)
             ELSE IF l.value.type = "GCMIntegerType"
             THEN Replied(NewInteger(l.value.value), EmptyRedisError, m)
             ELSE Replied(Nil, NewDefaultRedisError("Stored value is not a string or integer"), m)
        ELSE Replied(Nil, NewDefaultRedisError("GET expects a string key value"), m)

getStoreCommandReply(v, returnPreviousKey, m) ==
    IF returnPreviousKey
    THEN Replied(NewBulkString(RespToString(v)), EmptyRedisError, m)
    ELSE Replied(redisOk, EmptyRedisError, m)

\* executeSetCommand: with one item, GetItemAtIndex(1) is out of range
executeSetCommand(items, returnPreviousKey, m) ==
    IF Len(items) = 2
    THEN Replied(NewNullBulkString, NewDefaultRedisError("wrong number of arguments for (set) command"), m)
    ELSE IF Len(items) < 3
    THEN Faulted(m)
    ELSE LET key == items[2]
             value == items[3]
         IN  IF key.type \notin {"String", "BulkString"}
             THEN Replied(NewNullBulkString, NewDefaultRedisError("GET expects a string key value"), m)
             ELSE IF value.type \in {"String", "BulkString"}
             THEN getStoreCommandReply(value, returnPreviousKey,
                                       StoreBody(m, RespToString(key), NewGCMString(RespToString(value))))
             ELSE IF value.type = "Integer"
             THEN getStoreCommandReply(value, returnPreviousKey,
                                       StoreBody(m, RespToString(key), NewGCMInteger(value.value)))
             ELSE Replied(NewNullBulkString, NewDefaultRedisError("Value must be string or integer"), m)

\* executeDeleteCommand: the for loop; every round reads the item at index 1
RECURSIVE deleteLoop(_, _, _, _)
deleteLoop(items, k, m, numberOfKeysDeleted) ==
    IF k >= Len(items)
    THEN Replied(NewInteger(numberOfKeysDeleted), EmptyRedisError, m)
    ELSE LET key == items[2]
         IN  IF key.type \notin {"String", "BulkString"}
             THEN Replied(NewInteger(0), NewDefaultRedisError("GET expects a string key value"), m)
             ELSE With(DeleteBody(m, RespToString(key)), LAMBDA d :
                      deleteLoop(items, k + 1, d.internal,
                                 IF d.ok THEN numberOfKeysDeleted + 1 ELSE numberOfKeysDeleted))
executeDeleteCommand(items, m) ==
    IF Len(items) = 1
    THEN Replied(NewInteger(0), NewDefaultRedisError("wrong number of arguments for (del) command"), m)
    ELSE deleteLoop(items, 1, m, 0)

\* (the command name matched without regard to case for GET)
ExecuteStringCommandAnyCase(items, m) ==
    IF Len(items) > 0
    THEN IF items[1] = Nil THEN Faulted(m)
         ELSE LET name == RespToString(items[1])
              IN  IF name \in {getCommand, <<"g", "e", "t">>} THEN executeGetCommand(items, m)
                  ELSE IF name = setCommand THEN executeSetCommand(items, FALSE, m)
                  ELSE IF name = getSetCommand THEN executeSetCommand(items, TRUE, m)
                  ELSE IF name = deleteCommand THEN executeDeleteCommand(items, m)
                  ELSE Replied(Nil, NewDefaultRedisError("Cannot handle command"), m)
    ELSE Replied(Nil, NewDefaultRedisError("Cannot handle command"), m)
\* ExecuteStringCommand(ra) on the map m; a nil first item has no ToString to call
ExecuteStringCommand(items, m) ==
    IF Len(items) > 0
    THEN IF items[1] = Nil THEN Faulted(m)
         ELSE LET name == RespToString(items[1])
              IN  IF name = getCommand THEN executeGetCommand(items, m)
                  ELSE IF name = setCommand THEN executeSetCommand(items, FALSE, m)
                  ELSE IF name = getSetCommand THEN executeSetCommand(items, TRUE, m)
                  ELSE IF name = deleteCommand THEN executeDeleteCommand(items, m)
                  ELSE Replied(Nil, NewDefaultRedisError("Cannot handle command"), m)
    ELSE Replied(Nil, NewDefaultRedisError("Cannot handle command"), m)


\* --------------------------------------------------------- handleRequest
\* One connection and one read: the bytes are a pipeline of at most MaxCmds requests.
MaxCmds == 3

BulkOf(text) == Bulk(Itoa(Len(text)), text)
\* runClient: *n, then every part as a bulk string
Request(parts) == <<Elem(arrayStartByte, Itoa(Len(parts)))>> \o [n \in 1..Len(parts) |-> BulkOf(parts[n])]
Requests ==
    {Request(<<setCommand, <<"a">>, <<"1">> >>),
     Request(<<setCommand, <<"b">>, <<"2">> >>),
     Request(<<deleteCommand, <<"a">> >>),
     Request(<<getCommand, <<"a">> >>),
     Request(<<getSetCommand, <<"a">>, <<"2">> >>),
     Request(<<getCommand>>),
     Request(<<setCommand>>),
     Request(<<deleteCommand>>),
     Request(<<setCommand, <<"a">> >>),
     Request(<< <<"F", "O">> >>),
     Request(<< <<"g", "e", "t">>, <<"a">> >>),
     Request(<<getSetCommand, <<"a">> >>),
     Request(<<deleteCommand, <<"a">>, <<"b">> >>),
     <<Elem(arrayStartByte, <<"3">>), BulkOf(setCommand), Elem(integerStartByte, <<"7">>), BulkOf(<<"1">>)>>,
     <<Elem(arrayStartByte, <<"2">>), BulkOf(getCommand), Elem(bulkStringStartByte, <<"-", "1">>)>>,
     <<Elem(arrayStartByte, <<"2">>), BulkOf(deleteCommand), Elem(errorStartByte, <<"E">>)>>,
     Request(<<setCommand, <<"a">>, <<>> >>),
     <<Elem(arrayStartByte, <<"2">>), BulkOf(getCommand), Elem(stringStartByte, <<"a">>)>>,
     <<Elem(arrayStartByte, <<"3">>), BulkOf(setCommand), BulkOf(<<"a">>), Elem(integerStartByte, <<"7">>)>>,
     <<Elem(arrayStartByte, <<"2">>), BulkOf(getCommand), Elem(integerStartByte, <<"7">>)>>,
     <<Elem(arrayStartByte, <<"1">>)>>}
RECURSIVE Flatten(_)
Flatten(ss) == IF ss = <<>> THEN <<>> ELSE Head(ss) \o Flatten(Tail(ss))

\* the text written for a RedisError: err.ToString() + "\n"
ErrorText(e) == <<e.ecode, "{", e.message, "}", nlByte>>
\* the text written for a reply: "(nil)" for a nil dataType, else dataType.ToString(), + "\n"
ReplyText(v) == (IF v = Nil THEN NilText ELSE RespToString(v)) \o <<nlByte>>

\* scanner.Scan(); bytes := scanner.Bytes()
ScanCmds ==
    /\ conn.pc = "closed"
    /\ \E reqs \in SeqsUpTo(Requests, MaxCmds) : conn' = ScanOf(Flatten(reqs))
    /\ UNCHANGED <<now, internal, writer, readers, ttlMap, sortedKeys, mux, sw, cons, cl, obs, hist, test>>

\* (the handler returning, and closing the connection, after the Error is written)
WriteErrorAndClose ==
    /\ conn.pc = "parsed"
    /\ conn.finalErr # EmptyRedisError
    /\ conn' = [conn EXCEPT !.pc = "crashed", !.replies = Append(@, ErrorText(conn.finalErr))]
    /\ UNCHANGED <<now, internal, writer, readers, ttlMap, sortedKeys, mux, sw, cons, cl, obs, hist, test>>

\* f != EmptyRedisError: conn.Write(f.ToString()) and back to scanner.Scan()
WriteError ==
    /\ conn.pc = "parsed"
    /\ conn.finalErr # EmptyRedisError
    /\ conn' = [conn EXCEPT !.pc = "done", !.replies = Append(@, ErrorText(conn.finalErr))]
    /\ UNCHANGED <<now, internal, writer, readers, ttlMap, sortedKeys, mux, sw, cons, cl, obs, hist, test>>

\* one round of "for _, ra := range ras": ExecuteStringCommand(ra), then conn.Write;
\* Store and Delete take and release the map's lock inside the call
Execute ==
    /\ conn.pc = "parsed"
    /\ conn.finalErr = EmptyRedisError
    /\ conn.next <= Len(conn.commands)
    /\ CanLock
    /\ \E ra \in {conn.commands[conn.next]} : \E r \in {ExecuteStringCommand(ra, internal)} :
           /\ ~r.panic
           /\ internal' = r.internal
           /\ conn' = [conn EXCEPT
                  !.next = @ + 1,
                  !.replies = Append(@, IF r.err # EmptyRedisError THEN ErrorText(r.err) ELSE ReplyText(r.reply)),
                  !.log = Append(@, [ra |-> ra, before |-> internal, reply |-> r.reply, err |-> r.err])]
    /\ UNCHANGED <<now, writer, readers, ttlMap, sortedKeys, mux, sw, cons, cl, obs, hist, test>>

\* ExecuteStringCommand panics: handleRequest has no recover, the process ends
Crash ==
    /\ conn.pc = "parsed"
    /\ conn.finalErr = EmptyRedisError
    /\ conn.next <= Len(conn.commands)
    /\ ExecuteStringCommand(conn.commands[conn.next], internal).panic
    /\ conn' = [conn EXCEPT !.pc = "crashed"]
    /\ UNCHANGED <<now, internal, writer, readers, ttlMap, sortedKeys, mux, sw, cons, cl, obs, hist, test>>

\* the range loop is over: back to scanner.Scan()
Served ==
    /\ conn.pc = "parsed"
    /\ conn.finalErr = EmptyRedisError
    /\ conn.next > Len(conn.commands)
    /\ conn' = [conn EXCEPT !.pc = "done"]
    /\ UNCHANGED <<now, internal, writer, readers, ttlMap, sortedKeys, mux, sw, cons, cl, obs, hist, test>>

NextConn == ScanCmds \/ Parse \/ WriteError \/ Execute \/ Crash \/ Served
SpecConn == Init /\ [][NextConn]_vars

\* ------------------------------------------------ the parsers on their own
\* The parser tests call each parser on the bytes of an element, with or without
\* bytes after it, and with LF alone as line end. An input is at most MaxArgs
\* elements; bare says its lines end in LF without CR.
MaxArgs == 3

ErrorElems ==
    {Elem(errorStartByte, <<"E">>),
     Elem(errorStartByte, <<whitespaceByte, "m">>),
     Elem(errorStartByte, <<"E", whitespaceByte, "m", whitespaceByte, "n">>)}
\* the length line of the empty bulk string, nothing after it
EmptyBulkLine == Elem(bulkStringStartByte, <<"0">>)
TestElems == Elems \cup ErrorElems \cup {EmptyBulkLine}

LineEnd(bare) == IF bare THEN <<nlByte>> ELSE CRLF
WireWith(e, bare) ==
    <<e.tag>> \o e.head \o (IF e.cut THEN <<>> ELSE LineEnd(bare))
        \o (IF e.hasBody THEN e.body \o LineEnd(bare) ELSE <<>>)
RECURSIVE WireAllWith(_, _)
WireAllWith(elems, bare) ==
    IF elems = <<>> THEN <<>> ELSE WireWith(Head(elems), bare) \o WireAllWith(Tail(elems), bare)

\* the parser of the input's start byte: parseArray for '*' (and for no byte at all),
\* else the parser parseArray itself would pick
parseValue(bytes) ==
    IF bytes = <<>> \/ Head(bytes) = arrayStartByte THEN parseArray(bytes) ELSE parseElement(bytes)

\* a test case: the bytes handed to the parser
TakeBytes ==
    /\ conn.pc = "closed"
    /\ \E elems \in SeqsUpTo(TestElems, MaxArgs) : \E bare \in BOOLEAN :
          conn' = [pc |-> "bytes", elems |-> elems, bare |-> bare,
                   input |-> WireAllWith(elems, bare), out |-> Panicked(NoPanic)]
    /\ UNCHANGED <<now, internal, writer, readers, ttlMap, sortedKeys, mux, sw, cons, cl, obs, hist, test>>

\* the call of the parser
ParseOne ==
    /\ conn.pc = "bytes"
    /\ \E r \in {parseValue(conn.input)} : conn' = [conn EXCEPT !.pc = "parsed1", !.out = r]
    /\ UNCHANGED <<now, internal, writer, readers, ttlMap, sortedKeys, mux, sw, cons, cl, obs, hist, test>>

NextElem == TakeBytes \/ ParseOne
SpecElem == Init /\ [][NextElem]_vars

\* ------------------------------------------------ the decoder, loop by loop
\* ParseRedisClientRequest with its two loops as steps: "top" is the head of the loop
\* over the input (bytes is what is left of it), "elem" the head of parseArray's loop
\* (chunk is what is left of the slice it was handed), "returned" the return.
LoopOf(elems) ==
    [pc |-> "top", elems |-> elems, input |-> WireAll(elems), bytes |-> WireAll(elems),
     chunk |-> <<>>, counter |-> 0, items |-> <<>>, bytesRead |-> 0,
     commands |-> <<>>, totalBytesRead |-> 0, totalBytes |-> 0, finalErr |-> EmptyRedisError]

\* the call on the bytes of a read
TakeInput ==
    /\ conn.pc = "closed"
    /\ \E elems \in SeqsUpTo(Elems, MaxElems) : conn' = LoopOf(elems)
    /\ UNCHANGED <<now, internal, writer, readers, ttlMap, sortedKeys, mux, sw, cons, cl, obs, hist, test>>

\* a panic: the deferred recover sets finalErr and the function returns
Fault(p) ==
    [conn EXCEPT !.pc = "returned", !.totalBytes = recover(conn.commands, p).totalBytes,
                 !.finalErr = recover(conn.commands, p).finalErr]
\* the return statement
Return == [conn EXCEPT !.pc = "returned", !.totalBytes = conn.totalBytesRead]

\* "for len(bytes) > 0": the slice up to the next '*', and parseArray up to its loop
TopIter ==
    /\ conn.pc = "top"
    /\ conn' =
          IF Len(conn.bytes) = 0 THEN Return
          ELSE LET chunk == SubSeq(conn.bytes, 1, getNextArrayStartByteIndex(conn.bytes))
                   p == assertStart(chunk, arrayStartByte)
                   ri == parseIntegers([chunk EXCEPT ![1] = integerStartByte])
               IN  IF p # NoPanic THEN Fault(p)
                   ELSE IF ri.panic # NoPanic THEN Fault(ri.panic)
                   ELSE IF ri.val.value < 0 THEN Fault(Panic("error", "", "Cannot allocate Array"))
                   ELSE [conn EXCEPT !.pc = "elem", !.chunk = BytesFrom(chunk, ri.read),
                                     !.counter = 0, !.items = NewArray(ri.val.value),
                                     !.bytesRead = ri.read]
    /\ UNCHANGED <<now, internal, writer, readers, ttlMap, sortedKeys, mux, sw, cons, cl, obs, hist, test>>

\* one round of parseArray's loop; when the slice is used up parseArray returns and
\* the loop over the input appends the Array and advances
ElemIter ==
    /\ conn.pc = "elem"
    /\ conn' =
          IF Len(conn.chunk) = 0
          THEN IF conn.bytesRead > 0
               THEN [conn EXCEPT !.pc = "top", !.commands = Append(@, conn.items),
                                 !.bytes = BytesFrom(@, conn.bytesRead),
                                 !.totalBytesRead = @ + conn.bytesRead]
               ELSE Return
          ELSE IF conn.counter >= Len(conn.items)
          THEN Fault(Panic("string", "", "RESP Array index exceeds specified capacity"))
          ELSE LET e == parseElement(conn.chunk)
               IN  IF e.panic # NoPanic THEN Fault(e.panic)
                   ELSE IF e.read > Len(conn.chunk)
                   THEN Fault(Panic("runtime", "", "slice bounds out of range"))
                   ELSE [conn EXCEPT !.chunk = BytesFrom(@, e.read),
                                     !.items = [@ EXCEPT ![conn.counter + 1] = e.val],
                                     !.counter = @ + 1, !.bytesRead = @ + e.read]
    /\ UNCHANGED <<now, internal, writer, readers, ttlMap, sortedKeys, mux, sw, cons, cl, obs, hist, test>>

NextLoop == TakeInput \/ TopIter \/ ElemIter
SpecLoop == Init /\ [][NextLoop]_vars
\* a running call goes on running
FairLoop == SpecLoop /\ WF_vars(TopIter) /\ WF_vars(ElemIter)

\* ================================================================ claims

\* C1: for every key k and TTL t >= 1, once SETEX k t v has been executed and
\* at least t+2 seconds have passed, k is absent from the Store (obs[k].exp is
\* the second now+t the SETEX scheduled; no later command wrote k). The state
\* is looked at when the sweeper and the consumer have done all they do in the
\* current second.
C1_ExpiredKeyAbsent ==
    \A k \in Keys : \A e \in obs[k].exp :
        (~obs[k].plainSet /\ now >= e + 2 /\ Quiescent) => k \notin DOMAIN internal

\* C2: when a sweep iteration is about to release the mutex, no key it emitted
\* is left in ttlMap or in sortedKeys, and no key of sortedKeys has an expiry
\* <= currSec.
C2_SweepDropsEmitted ==
    sw.pc = "unlock" =>
        /\ \A k \in sw.emitted : k \notin DOMAIN ttlMap /\ k \notin Range(sortedKeys)
        /\ \A n \in 1..Len(sortedKeys) :
              sortedKeys[n] \in DOMAIN ttlMap => ttlMap[sortedKeys[n]] > sw.currSec

\* C3: outside the mutex, sortedKeys is ascending by the keys' current ttlMap
\* values (compared among the keys that have a ttlMap entry).
C3_SortedByTTL ==
    mux = "free" =>
        \A m, n \in 1..Len(sortedKeys) :
            (m < n /\ sortedKeys[m] \in DOMAIN ttlMap /\ sortedKeys[n] \in DOMAIN ttlMap)
                => ttlMap[sortedKeys[m]] <= ttlMap[sortedKeys[n]]

\* C4: after SETEX k t v1 and then, before the expiry, SET k v2: until the
\* expiry second the record of k is still in the queue with its expiry, and
\* once the expiry second has passed (by two seconds, the sweeper and the
\* consumer having done all they do in the current second) k is gone from the
\* Store.
C4_SetKeepsExpiry ==
    \A k \in Keys : \A e \in obs[k].exp :
        obs[k].plainSet =>
            /\ now < e => (k \in DOMAIN ttlMap /\ ttlMap[k] = e /\ k \in Range(sortedKeys))
            /\ (now >= e + 2 /\ Quiescent) => k \notin DOMAIN internal

\* C5: a key re-scheduled with a later expiry t2, while its earlier record was
\* pending, has not been emitted (dropped from ttlMap) before currSec >= t2.
C5_LaterTTLSupersedes ==
    \A k \in Keys : \A e \in obs[k].exp :
        (obs[k].sup /\ k \notin DOMAIN ttlMap) => sw.currSec >= e

C5_Witness ==
    \E k \in Keys : obs[k].sup /\ obs[k].exp # {} /\ k \notin DOMAIN ttlMap

\* C6: once a non-blocking send has failed (exitFlag), the sweeper never goes
\* back to the top of its loop: it finishes the iteration, releases the mutex,
\* sleeps and, when the Sleep returns, stops; it stops without the mutex.
C6_ExitAfterFailedSend ==
    /\ [](sw.exitFlag => sw.pc \in {"loop", "unlock", "sleep", "done"})
    /\ [](sw.pc \in {"sleep", "done"} => mux # "sweeper")
    /\ [][sw.exitFlag => sw'.exitFlag]_vars
    /\ [][sw.pc = "done" => sw'.pc = "done"]_vars
    /\ (sw.exitFlag ~> sw.pc \in {"sleep", "done"})
    /\ ((sw.exitFlag /\ now < MaxTime) ~> sw.pc = "done")

C6_Witness == sw.exitFlag /\ sw.pc = "done" /\ mux = "free"

\* C7: while the sweeper holds the mutex it always has a step it can take,
\* whatever the consumer is doing, and it releases the mutex; a schedule
\* waiting for the mutex gets it; no goroutine waits for the queue mutex with the
\* Store lock in its hands.
C7_SweeperNeverWaitsUnderMutex ==
    /\ [](mux = "sweeper" => ENABLED Sweeper)
    /\ (mux = "sweeper" ~> mux = "free")
    /\ \A c \in Clients : (cl[c].pc = "wantMux" ~> cl[c].pc = "idle")
    /\ [](\A c \in Clients : cl[c].pc = "wantMux" => writer # c)
    /\ [](writer # "sweeper")

C7_Witness ==
    /\ mux = "sweeper"
    /\ sw.pc = "loop"
    /\ cons.pc = "got"
    /\ \E c \in Clients : cl[c].pc = "wantMux"

\* C8: a Load of k whose read finds the history of k as it was when the Load
\* was called (no Store or Delete of k was applied in between), the last state
\* being a Store's value v, returns (v, true); a Load of a key no Store has
\* written returns ok = false.
C8_StoreThenLoad ==
    \A c \in Clients :
        cl[c].pc = "load.runlock" =>
            LET h == hist[cl[c].key]
            IN  /\ (Len(h) = cl[c].floor /\ Last(h) # Absent)
                      => (cl[c].val = Last(h) /\ cl[c].ok)
                /\ (\A n \in 1..Len(h) : h[n] = Absent) => ~cl[c].ok

C8_Witness ==
    \E c \in Clients :
        /\ cl[c].pc = "load.runlock"
        /\ Len(hist[cl[c].key]) = cl[c].floor
        /\ cl[c].floor >= 3
        /\ cl[c].ok
        /\ cl[c].val = Last(hist[cl[c].key])

\* C9: when Delete(k) is about to return, its result is true exactly when k
\* was in the map as the Delete found it under the write lock, k is not in the
\* map, and every other key has the value it had; a Delete that found k missing
\* returns false and has left the map as it was.
C9_DeleteContract ==
    \A c \in Clients :
        cl[c].pc = "delete.unlock" =>
            LET k == cl[c].key
                before == cl[c].snap
            IN  /\ cl[c].ok <=> k \in DOMAIN before
                /\ k \notin DOMAIN internal
                /\ DOMAIN internal = DOMAIN before \ {k}
                /\ \A x \in DOMAIN internal : internal[x] = before[x]
                /\ k \notin DOMAIN before => (~cl[c].ok /\ internal = before)

C9_Witness ==
    \E c \in Clients :
        /\ cl[c].pc = "delete.unlock"
        /\ cl[c].ok
        /\ DOMAIN cl[c].snap = Keys
        /\ internal # EmptyMap

\* C10: with Loads, Stores and Deletes of several goroutines interleaved, the value
\* a Load of k returns is a state k has had at or after the point of its
\* history reached when the Load was called (every Store that had returned by
\* then is at or before that point): the value of that Store or of a later
\* one, never a state k had before.
C10_LoadNeverEarlier ==
    \A c \in Clients :
        cl[c].pc = "load.runlock" =>
            \E n \in cl[c].floor..Len(hist[cl[c].key]) :
                /\ hist[cl[c].key][n] = cl[c].val
                /\ cl[c].ok <=> cl[c].val # Absent

C10_Witness ==
    \E c \in Clients :
        LET h == hist[cl[c].key]
        IN  /\ cl[c].pc = "load.runlock"
            /\ cl[c].floor >= 2
            /\ cl[c].floor < Len(h)
            /\ cl[c].ok
            /\ cl[c].val = Last(h)
            /\ h[cl[c].floor] \notin {Absent, cl[c].val}

\* C11: at most one goroutine is inside Store or Delete, and while one is, no
\* Load is inside its critical section. An eviction is a Delete call like any
\* other, so it is never inside together with another operation on the Store.
C11_SingleWriterManyReaders ==
    /\ Cardinality(InStoreOrDelete) <= 1
    /\ InStoreOrDelete # {} => InLoad = {}

C11_Witness ==
    /\ Cardinality(InLoad) = 2
    /\ \E c \in Clients : cl[c].pc = "delete.lock"
    /\ \E k \in Keys : Len(hist[k]) > 1

ValidBulk(e) == e.tag = bulkStringStartByte /\ e.hasBody /\ ~e.cut /\ e.head = Itoa(Len(e.body))
IsHeader(e, n) == e.tag = arrayStartByte /\ ~e.hasBody /\ ~e.cut /\ e.head = Itoa(n)
RECURSIVE RequestArrays(_)
RequestArrays(elems) ==
    \/ elems = <<>>
    \/ \E n \in 0..(Len(elems) - 1) :
          /\ IsHeader(Head(elems), n)
          /\ \A m \in 2..(n + 1) : ValidBulk(elems[m])
          /\ RequestArrays(SubSeq(elems, n + 2, Len(elems)))
Children(items) == {n \in 1..Len(items) : items[n] # Nil}

\* C15: every valid RESP byte sequence made of request Arrays (bulk-string payloads
\* of any bytes, empty bulk strings included) decodes with no error, and every decoded
\* Array has as many decoded children as the length it declared.
C15_ValidDecodes ==
    (conn.pc = "parsed" /\ RequestArrays(conn.elems)) =>
        /\ conn.finalErr = EmptyRedisError
        /\ \A n \in 1..Len(conn.commands) :
              Cardinality(Children(conn.commands[n])) = Len(conn.commands[n])

\* C16: every Array the decoder returns holds a decoded value in each of the N slots
\* it declared, also when the input ends, or the next '*' occurs, before N elements
\* have been read.
C16_NoUnsetSlot ==
    conn.pc = "parsed" =>
        \A n \in 1..Len(conn.commands) :
            \A m \in 1..Len(conn.commands[n]) : conn.commands[n][m] # Nil

\* the input cut before every '*' byte but its first byte
RECURSIVE Chunks(_)
Chunks(bytes) ==
    IF bytes = <<>> THEN <<>>
    ELSE LET stars == {n \in 2..Len(bytes) : bytes[n] = arrayStartByte}
             cut == IF stars = {} THEN Len(bytes) + 1 ELSE CHOOSE n \in stars : \A m \in stars : n <= m
         IN  With(cut, LAMBDA c : <<SubSeq(bytes, 1, c - 1)>> \o With(SubSeq(bytes, c, Len(bytes)), Chunks))
\* the first chunk a sub-parser faults on, or one past the last chunk
FirstFault(chunks) ==
    LET faulty == {n \in 1..Len(chunks) : parseArray(chunks[n]).panic # NoPanic}
    IN  IF faulty = {} THEN Len(chunks) + 1 ELSE CHOOSE n \in faulty : \A m \in faulty : n <= m

\* C17: for every input ParseRedisClientRequest returns normally: a fault raised in a
\* sub-parser comes back as the Error result, together with exactly the Arrays decoded
\* before the fault, in input order; with no fault the Error result is empty.
C17_FaultsCaught ==
    conn.pc = "parsed" =>
        \E chunks \in {Chunks(conn.input)} : \E k \in {FirstFault(chunks)} :
            /\ Len(conn.commands) = k - 1
            /\ \A n \in 1..(k - 1) : conn.commands[n] = parseArray(chunks[n]).val
            /\ conn.finalErr.type = "RedisError"
            /\ (k <= Len(chunks)) <=> (conn.finalErr # EmptyRedisError)
C17_Witness ==
    /\ conn.pc = "parsed"
    /\ conn.finalErr # EmptyRedisError
    /\ Len(conn.commands) = 2
    /\ conn.commands[2] # <<>>

\* the faults the decoder reports under the default code
ListedFaults ==
    {"Bulk string length exceeds maximum allowed size",
     "Bulk string length must be greater than -1",
     "Bulk string length does not match expected length",
     "Invalid integer sequence supplied",
     "RESP Array index exceeds specified capacity",
     "Unknown start byte"}

\* C18: an input whose top-level element does not start with '*' is answered with an
\* Error of code IVBYSEQ and no Array; a fault of the listed kinds (bulk length over
\* the maximum, below -1 or not matching, malformed integer literal, array overflow,
\* unknown tag) is answered with an Error of code ERR.
C18_FaultCodes ==
    conn.pc = "parsed" =>
        \E chunks \in {Chunks(conn.input)} : \E k \in {FirstFault(chunks)} :
            /\ (conn.input # <<>> /\ Head(conn.input) # arrayStartByte) =>
                  (conn.finalErr.ecode = InvalidByteSeq /\ conn.commands = <<>>)
            /\ (k <= Len(chunks) /\ parseArray(chunks[k]).panic.message \in ListedFaults) =>
                  conn.finalErr.ecode = DefaultErrorKeyword
C18_Witness ==
    /\ conn.pc = "parsed"
    /\ conn.finalErr = NewRedisError(DefaultErrorKeyword, "Bulk string length must be greater than -1")
    /\ Len(conn.commands) = 1

\* the Arrays a sequence of request Arrays stands for: the payloads, as bulk strings
RECURSIVE ArraysOf(_)
ArraysOf(elems) ==
    IF elems = <<>> THEN <<>>
    ELSE With(Atoi(Head(elems).head).conv, LAMBDA n :
             <<[m \in 1..n |-> NewBulkString(elems[m + 1].body)]>>
                 \o With(SubSeq(elems, n + 2, Len(elems)), ArraysOf))
\* a command of the right arity: GET k, SET k v, GETSET k v, DEL k ...
WellFormedCommand(items) ==
    /\ Len(items) >= 1
    /\ \/ RespToString(items[1]) = getCommand /\ Len(items) = 2
       \/ RespToString(items[1]) \in {setCommand, getSetCommand} /\ Len(items) = 3
       \/ RespToString(items[1]) = deleteCommand /\ Len(items) >= 2
WellFormedPipeline(elems) ==
    /\ RequestArrays(elems)
    /\ \E arrays \in {ArraysOf(elems)} : \A n \in 1..Len(arrays) : WellFormedCommand(arrays[n])
Handled == conn.pc \in {"done", "crashed"}

\* C13: for one read holding n well-formed command Arrays the handler writes exactly
\* n replies, the i-th being the result of executing the i-th command on the Store
\* as commands 1..i-1 left it.
C13_OneReplyPerCommand ==
    (Handled /\ WellFormedPipeline(conn.elems)) =>
        \E arrays \in {ArraysOf(conn.elems)} :
            /\ conn.pc = "done"
            /\ Len(conn.replies) = Len(arrays)
            /\ Len(conn.log) = Len(arrays)
            /\ \A n \in 1..Len(arrays) :
                  /\ conn.log[n].ra = arrays[n]
                  /\ conn.log[n].before =
                        (IF n = 1 THEN EmptyMap
                         ELSE ExecuteStringCommand(arrays[n - 1], conn.log[n - 1].before).internal)
                  /\ conn.replies[n] =
                        (IF conn.log[n].err # EmptyRedisError
                         THEN ErrorText(conn.log[n].err) ELSE ReplyText(conn.log[n].reply))

\* a command fault: unknown command, wrong arity, or a key that is no string
CommandFault(items) ==
    \/ items = <<>>
    \/ items[1] = Nil
    \/ RespToString(items[1]) \notin {getCommand, setCommand, getSetCommand, deleteCommand}
    \/ ~WellFormedCommand(items)
    \/ items[2].type \notin {"String", "BulkString"}

\* C14: a command fault (wrong arity, wrong argument type, unknown command) gets one
\* Error reply, for that command only: the handler keeps running and every command of
\* the pipeline is executed and replied to, whatever Arrays the decoder returned.
C14_FaultIsOneErrorReply ==
    /\ conn.pc # "crashed"
    /\ (conn.pc = "done" /\ conn.finalErr = EmptyRedisError) =>
          /\ Len(conn.replies) = Len(conn.commands)
          /\ \A n \in 1..Len(conn.commands) :
                CommandFault(conn.commands[n]) => conn.log[n].err # EmptyRedisError

\* the text a stored value stands for
StoredText(v) == IF v.type = "*GCMIntegerType" THEN Itoa(v.value) ELSE v.value
\* GET k with k a simple string or a non-null bulk string
IsGet(items) ==
    /\ Len(items) = 2
    /\ items[1] # Nil /\ RespToString(items[1]) = getCommand
    /\ \/ items[2].type = "String"
       \/ items[2].type = "BulkString" /\ ~items[2].isNullValue
\* SET k v with k a string and v a string or an integer
IsSet(items) ==
    /\ Len(items) = 3
    /\ items[1] # Nil /\ RespToString(items[1]) = setCommand
    /\ items[2].type \in {"String", "BulkString"}
    /\ items[3].type \in {"String", "BulkString", "Integer"}
\* the Store after the n-th command of the read
StoreAfter(n) == IF n < Len(conn.log) THEN conn.log[n + 1].before ELSE internal

\* C19: GET k, with k a simple string or a non-null bulk string, is answered with the
\* value of k as a bulk string when k is in the Store and with the null bulk string
\* when it is not.
C19_GetReply ==
    conn.pc \in {"parsed", "done", "crashed"} =>
        \A n \in 1..Len(conn.log) :
            IsGet(conn.log[n].ra) =>
                \E k \in {RespToString(conn.log[n].ra[2])} :
                    conn.replies[n] =
                        (IF k \in DOMAIN conn.log[n].before
                         THEN ReplyText(NewBulkString(StoredText(conn.log[n].before[k])))
                         ELSE ReplyText(NewNullBulkString))

\* C20: SET k v is answered OK and leaves the text of v under k; a GET k that follows
\* it on the connection is answered v; GET of a key that was never set is answered (nil).
C20_SetThenGet ==
    conn.pc \in {"parsed", "done", "crashed"} =>
        \A n \in 1..Len(conn.log) :
            /\ IsSet(conn.log[n].ra) =>
                  \E k \in {RespToString(conn.log[n].ra[2])} : \E v \in {RespToString(conn.log[n].ra[3])} :
                      /\ conn.replies[n] = ReplyText(redisOk)
                      /\ k \in DOMAIN StoreAfter(n) /\ StoredText(StoreAfter(n)[k]) = v
                      /\ (n < Len(conn.log) /\ IsGet(conn.log[n + 1].ra)
                             /\ RespToString(conn.log[n + 1].ra[2]) = k) =>
                            conn.replies[n + 1] = v \o <<nlByte>>
            /\ (IsGet(conn.log[n].ra) /\ RespToString(conn.log[n].ra[2]) \notin DOMAIN conn.log[n].before) =>
                  conn.replies[n] = NilText \o <<nlByte>>

\* SET or GETSET with too few items
ShortSet(items) ==
    /\ Len(items) \in {1, 2}
    /\ items[1] # Nil /\ RespToString(items[1]) \in {setCommand, getSetCommand}

\* C21: SET, and GETSET, received with 1 or 2 items is answered with the Error
\* 'ERR wrong number of arguments for (set) command' and leaves the Store unchanged.
C21_ShortSetRefused ==
    (conn.pc = "parsed" /\ conn.finalErr = EmptyRedisError /\ conn.next <= Len(conn.commands)
       /\ ShortSet(conn.commands[conn.next])) =>
        \E r \in {ExecuteStringCommand(conn.commands[conn.next], internal)} :
            /\ ~r.panic
            /\ r.err = NewRedisError(DefaultErrorKeyword, "wrong number of arguments for (set) command")
            /\ r.internal = internal

\* GETSET k v with k a string and v a string or an integer
IsGetSet(items) ==
    /\ Len(items) = 3
    /\ items[1] # Nil /\ RespToString(items[1]) = getSetCommand
    /\ items[2].type \in {"String", "BulkString"}
    /\ items[3].type \in {"String", "BulkString", "Integer"}

\* C22: GETSET k v on a key that exists stores v and is answered with the value k
\* held just before the call, as a bulk string.
C22_GetSetRepliesPrior ==
    conn.pc \in {"parsed", "done", "crashed"} =>
        \A n \in 1..Len(conn.log) :
            \E k \in {IF IsGetSet(conn.log[n].ra) THEN RespToString(conn.log[n].ra[2]) ELSE <<>>} :
                (IsGetSet(conn.log[n].ra) /\ k \in DOMAIN conn.log[n].before) =>
                    /\ conn.log[n].err = EmptyRedisError
                    /\ conn.log[n].reply = NewBulkString(StoredText(conn.log[n].before[k]))
                    /\ conn.replies[n] = StoredText(conn.log[n].before[k]) \o <<nlByte>>
                    /\ k \in DOMAIN StoreAfter(n)
                    /\ StoredText(StoreAfter(n)[k]) = RespToString(conn.log[n].ra[3])

\* DEL k1 [k2 ...] with every key a string
IsDel(items) ==
    /\ Len(items) >= 2
    /\ items[1] # Nil /\ RespToString(items[1]) = deleteCommand
    /\ \A m \in 2..Len(items) :
          \/ items[m].type = "String"
          \/ items[m].type = "BulkString" /\ ~items[m].isNullValue
ListedKeys(items) == {RespToString(items[m]) : m \in 2..Len(items)}

\* C23: DEL k1 [k2 ...] removes every listed key from the Store and is answered with
\* the number of listed keys that were present; afterwards none of them is present.
C23_DelRemovesListed ==
    conn.pc \in {"parsed", "done", "crashed"} =>
        \A n \in 1..Len(conn.log) :
            IsDel(conn.log[n].ra) =>
                \E listed \in {ListedKeys(conn.log[n].ra)} :
                    /\ conn.log[n].err = EmptyRedisError
                    /\ conn.log[n].reply = NewInteger(Cardinality(listed \cap DOMAIN conn.log[n].before))
                    /\ DOMAIN StoreAfter(n) = DOMAIN conn.log[n].before \ listed

\* a command of the right arity whose key is an Integer, an Error or the null bulk string
BadKey(v) ==
    \/ v.type \in {"Integer", "RedisError"}
    \/ v.type = "BulkString" /\ v.isNullValue
HasBadKey(items) == WellFormedCommand(items) /\ BadKey(items[2])
KeyMessage(name) ==
    IF name = getCommand THEN "GET expects a string key value"
    ELSE IF name = setCommand THEN "SET expects a string key value"
    ELSE IF name = getSetCommand THEN "GETSET expects a string key value"
    ELSE "DEL expects a string key value"

\* C24: GET, SET, GETSET and DEL with a key that is an Integer, an Error or the null
\* bulk string fail with the Error 'ERR <CMD> expects a string key value', <CMD> being
\* the command issued, and leave the Store unchanged.
C24_BadKeyRefused ==
    conn.pc \in {"parsed", "done", "crashed"} =>
        \A n \in 1..Len(conn.log) :
            (conn.log[n].ra # <<>> /\ conn.log[n].ra[1] # Nil /\ HasBadKey(conn.log[n].ra)) =>
                /\ conn.log[n].err =
                      NewRedisError(DefaultErrorKeyword, KeyMessage(RespToString(conn.log[n].ra[1])))
                /\ StoreAfter(n) = conn.log[n].before

\* an Array whose first item does not spell one of the command names
UnknownCommand(items) ==
    /\ items # <<>> /\ items[1] # Nil
    /\ RespToString(items[1]) \notin {getCommand, setCommand, getSetCommand, deleteCommand}

\* C25: an Array whose first item is not exactly one of the uppercase command names
\* (an unknown name, a lowercase spelling) is answered with one ERR Error reply, and
\* the step changes neither the Store nor the ExpiryQueue.
C25_UnknownCommandRefused ==
    [][(/\ conn.pc = "parsed" /\ conn.finalErr = EmptyRedisError
        /\ conn.next <= Len(conn.commands)
        /\ UnknownCommand(conn.commands[conn.next]))
       => /\ conn'.pc = "parsed"
          /\ conn'.next = conn.next + 1
          /\ conn'.replies = Append(conn.replies,
                                    ErrorText(NewRedisError(DefaultErrorKeyword, "Cannot handle command")))
          /\ UNCHANGED <<internal, ttlMap, sortedKeys>>]_vars
C25_Witness ==
    /\ conn.pc = "done"
    /\ Len(conn.log) = 3
    /\ RespToString(conn.log[2].ra[1]) = <<"g", "e", "t">>
    /\ conn.log[2].err.ecode = DefaultErrorKeyword
    /\ <<"a">> \in DOMAIN conn.log[2].before
    /\ conn.log[3].err = EmptyRedisError

\* the bytes of an element's first line
LineLen(e, bare) == 1 + Len(e.head) + Len(LineEnd(bare))
\* the first element of the parsed input is a bulk string header declaring n
BulkDeclares(n) ==
    /\ conn.pc = "parsed1" /\ conn.elems # <<>>
    /\ conn.elems[1].tag = bulkStringStartByte /\ ~conn.elems[1].cut
    /\ ~Atoi(conn.elems[1].head).err /\ Atoi(conn.elems[1].head).conv = n

\* C26: a bulk string declaring length -1 decodes to the null bulk string and consumes
\* the length line only; a declared length below -1 or above the maximum is a decode
\* error, whatever bytes follow the length line.
C26_NullAndBadLengths ==
    /\ BulkDeclares(-1) =>
          conn.out = Parsed(NewNullBulkString, LineLen(conn.elems[1], conn.bare))
    /\ BulkDeclares(-2) =>
          conn.out = Panicked(Panic("string", "", "Bulk string length must be greater than -1"))
    /\ BulkDeclares(MaxBulkSizeLength + 1) =>
          conn.out = Panicked(Panic("string", "", "Bulk string length exceeds maximum allowed size"))
C26_Witness ==
    /\ BulkDeclares(-1)
    /\ Len(conn.elems) = 2 /\ conn.elems[2] = Bulk(<<"1">>, <<"a">>)
    /\ conn.out.val = NewNullBulkString

\* C27: under CRLF line ends, a bulk string declaring L with 1 <= L <= MaxBulkSizeLength
\* and carrying a payload of L bytes, whatever the bytes, decodes to exactly that payload
\* and consumes length line + L + terminator; a body of another length is a decode error.
C27_PayloadRead ==
    (conn.pc = "parsed1" /\ ~conn.bare /\ conn.elems # <<>>) =>
        \E e \in {conn.elems[1]} :
            /\ (ValidBulk(e) /\ Len(e.body) >= 1 /\ Len(e.body) <= MaxBulkSizeLength) =>
                  conn.out = Parsed(NewBulkString(e.body), Len(WireWith(e, FALSE)))
            /\ (/\ e.tag = bulkStringStartByte /\ e.hasBody /\ ~e.cut
                /\ ~Atoi(e.head).err
                /\ Atoi(e.head).conv >= 1 /\ Atoi(e.head).conv <= MaxBulkSizeLength
                /\ Len(e.body) # Atoi(e.head).conv) =>
                  conn.out.panic # NoPanic

\* an element of a well-formed input, and a well-formed input: one element with any
\* well-formed elements after it, or an array header with the elements it declares
WellFormedElem(e) ==
    /\ ~e.cut
    /\ \/ e.tag \in {stringStartByte, errorStartByte} /\ ~e.hasBody
       \/ e.tag = integerStartByte /\ ~e.hasBody /\ ~Atoi(e.head).err
       \/ ValidBulk(e)
       \/ e.tag = bulkStringStartByte /\ ~e.hasBody /\ e.head = <<"-", "1">>
WellFormedInput(elems) ==
    /\ elems # <<>>
    /\ \A m \in 2..Len(elems) : WellFormedElem(elems[m])
    /\ WellFormedElem(elems[1]) \/ IsHeader(elems[1], Len(elems) - 1)
\* the CR bytes of line terminators
TerminatorCRs(bytes) ==
    Cardinality({n \in 1..(Len(bytes) - 1) : bytes[n] = crByte /\ bytes[n + 1] = nlByte})

\* C28: the parsers give, for a well-formed input whose lines end in LF alone, the same
\* value (or the same decode error) as for the input with CRLF line ends, and consume
\* fewer bytes by the number of terminator CR bytes of the consumed CRLF bytes.
C28_BareLFSameValue ==
    (conn.pc = "parsed1" /\ conn.bare /\ WellFormedInput(conn.elems)) =>
        \E crlf \in {WireAllWith(conn.elems, FALSE)} : \E ref \in {parseValue(crlf)} :
            /\ conn.out.panic = ref.panic
            /\ conn.out.val = ref.val
            /\ conn.out.read = ref.read - TerminatorCRs(SubSeq(crlf, 1, ref.read))
C28_Witness ==
    /\ conn.pc = "parsed1" /\ conn.bare /\ Len(conn.elems) = 3
    /\ IsHeader(conn.elems[1], 2)
    /\ conn.elems[2] = Bulk(<<"1">>, <<"a">>)
    /\ conn.elems[3] = Elem(errorStartByte, <<"E", whitespaceByte, "m">>)
    /\ conn.out = Parsed(<<NewBulkString(<<"a">>), NewRedisError(<<"E">>, <<"m">>)>>, 13)

\* the positions of the spaces of an error body
Spaces(body) == {n \in 1..Len(body) : body[n] = whitespaceByte}
FirstSpace(body) == CHOOSE n \in Spaces(body) : \A m \in Spaces(body) : n <= m

\* C29: parseErrorMessage splits the body at its first space: the bytes before it are the
\* code and all bytes after it the message; a body without a space is the code, with an
\* empty message. For every body, one that starts with a space included.
C29_SplitAtFirstSpace ==
    (/\ conn.pc = "parsed1" /\ conn.elems # <<>>
     /\ conn.elems[1].tag = errorStartByte /\ ~conn.elems[1].cut) =>
        \E body \in {conn.elems[1].head} :
            /\ conn.out.panic = NoPanic
            /\ conn.out.val =
                  IF Spaces(body) = {} THEN NewRedisError(body, <<>>)
                  ELSE NewRedisError(SubSeq(body, 1, FirstSpace(body) - 1),
                                     SubSeq(body, FirstSpace(body) + 1, Len(body)))

\* the type tags, and an element the parser of its tag decodes and consumes whole
TypeTags == {stringStartByte, errorStartByte, integerStartByte, bulkStringStartByte, arrayStartByte}
DecodesWhole(e, bare) ==
    /\ e.tag \in TypeTags \ {arrayStartByte}
    /\ \E w \in {WireWith(e, bare)} : \E r \in {parseElement(w)} :
          r.panic = NoPanic /\ r.read = Len(w)
\* the input is an array header declaring n, with elements after it
ArrayDeclares(n) ==
    /\ conn.pc = "parsed1" /\ conn.elems # <<>> /\ IsHeader(conn.elems[1], n)
Refused == conn.out.panic # NoPanic /\ conn.out.val = Nil

\* C30: parseArray returns no Array but a decode error when an element follows the N
\* decoded items of an array declaring N (index exceeds capacity), when an element starts
\* with a byte that is no type tag, and when the declared count is negative.
C30_ArrayFaultsRefused ==
    /\ \A n \in 0..(MaxArgs - 1) :
          (/\ ArrayDeclares(n) /\ Len(conn.elems) > n + 1
           /\ \A m \in 2..(n + 1) : DecodesWhole(conn.elems[m], conn.bare)) =>
              /\ Refused
              /\ conn.out.panic = Panic("string", "", "RESP Array index exceeds specified capacity")
    /\ \A n \in 0..MaxArgs :
          (/\ ArrayDeclares(n)
           /\ \E m \in 2..Len(conn.elems) :
                 /\ conn.elems[m].tag \notin TypeTags
                 /\ \A k \in 2..(m - 1) : ~conn.elems[k].cut) => Refused
    /\ ArrayDeclares(-1) =>
          /\ Refused
          /\ conn.out.panic = Panic("error", "", "Cannot allocate Array")
C30_Witness ==
    /\ ArrayDeclares(1) /\ Len(conn.elems) = 3
    /\ conn.elems[2] = Bulk(<<"1">>, <<"a">>) /\ conn.elems[3] = Bulk(<<"1">>, <<"a">>)
    /\ conn.out = Panicked(Panic("string", "", "RESP Array index exceeds specified capacity"))

\* C31: a bulk string declaring length 0 decodes to the empty, non-null bulk string and
\* consumes its length line only: inside an array the bytes after that line are taken as
\* the next element, be they an element or the CRLF of an empty payload.
C31_EmptyBulkLineOnly ==
    /\ BulkDeclares(0) =>
          conn.out = Parsed(NewBulkString(<<>>), LineLen(conn.elems[1], conn.bare))
    /\ (/\ ArrayDeclares(2) /\ Len(conn.elems) = 3
        /\ conn.elems[2] = EmptyBulkLine
        /\ DecodesWhole(conn.elems[3], conn.bare)) =>
          \E r \in {parseElement(WireWith(conn.elems[3], conn.bare))} :
              conn.out = Parsed(<<NewBulkString(<<>>), r.val>>, Len(conn.input))
    /\ (/\ ArrayDeclares(1) /\ Len(conn.elems) = 2
        /\ conn.elems[2] = Bulk(<<"0">>, <<>>)) =>
          conn.out = Panicked(Panic("string", "", "RESP Array index exceeds specified capacity"))
    /\ (/\ ArrayDeclares(2) /\ Len(conn.elems) >= 2
        /\ conn.elems[2] = Bulk(<<"0">>, <<>>)) =>
          conn.out = Panicked(Panic("string", "", "Unknown start byte"))
C31_Witness ==
    /\ ArrayDeclares(2) /\ Len(conn.elems) = 3 /\ ~conn.bare
    /\ conn.elems[2] = EmptyBulkLine
    /\ conn.elems[3] = Elem(integerStartByte, <<"7">>)
    /\ conn.out = Parsed(<<NewBulkString(<<>>), NewInteger(7)>>, 12)

\* C32: when the decode of a read reports an Error, the handler's step runs none of the
\* decoded Arrays and leaves the map as it was, writes the rendered Error as the only
\* reply of the read, and is back at the scanner with the connection open.
C32_DecodeErrorOneReply ==
    [][(conn.pc = "parsed" /\ conn.finalErr # EmptyRedisError)
       => /\ conn'.pc = "done"
          /\ conn'.replies = <<ErrorText(conn.finalErr)>>
          /\ conn'.log = <<>>
          /\ conn'.next = 1
          /\ UNCHANGED <<internal, ttlMap, sortedKeys>>]_vars
C32_Witness ==
    /\ conn.pc = "done" /\ conn.finalErr # EmptyRedisError
    /\ Len(conn.commands) >= 1 /\ IsSet(conn.commands[1])
    /\ Len(conn.replies) = 1

\* C33: a parser of an element (simple string, error, integer, bulk string) that returns
\* reports a count of consumed bytes between 1 and the length of its input: the offset of
\* an LF of the input, or the input's length when the input holds no LF.
C33_ReadWithinInput ==
    (/\ conn.pc = "parsed1" /\ conn.elems # <<>>
     /\ conn.elems[1].tag \in TypeTags \ {arrayStartByte}
     /\ conn.out.panic = NoPanic) =>
        /\ conn.out.read >= 1 /\ conn.out.read <= Len(conn.input)
        /\ IF nlByte \in Range(conn.input)
           THEN conn.input[conn.out.read] = nlByte
           ELSE conn.out.read = Len(conn.input)

\* the bytes of the first n chunks
RECURSIVE ChunkBytes(_, _)
ChunkBytes(chunks, n) == IF n = 0 THEN 0 ELSE Len(chunks[n]) + ChunkBytes(chunks, n - 1)

\* C34: the count of bytes ParseRedisClientRequest returns is the encoded length of the
\* Arrays it returns: the length of the input when there was no fault, the length of the
\* decoded prefix when a fault came after some Arrays.
C34_BytesConsumed ==
    conn.pc = "parsed" =>
        /\ conn.finalErr = EmptyRedisError => conn.totalBytes = Len(conn.input)
        /\ (conn.finalErr # EmptyRedisError /\ conn.commands # <<>>) =>
              \E chunks \in {Chunks(conn.input)} :
                  conn.totalBytes = ChunkBytes(chunks, Len(conn.commands))

\* the loops and the function agree on what is returned
LoopAgrees ==
    conn.pc = "returned" =>
        \E r \in {ParseRedisClientRequest(conn.input)} :
            /\ conn.commands = r.commands
            /\ conn.totalBytes = r.totalBytes
            /\ conn.finalErr = r.finalErr

\* a round of a loop that has input left
Running ==
    \/ conn.pc = "top" /\ conn.bytes # <<>>
    \/ conn.pc = "elem"
\* the round consumes at least one byte of what is left, or ends the decode with a fault
Progress ==
    \/ conn.pc = "top" /\ conn'.pc = "elem" /\ conn'.bytesRead >= 1
          /\ conn'.bytesRead + Len(conn'.chunk) <= Len(conn.bytes)
    \/ conn.pc = "elem" /\ conn'.pc = "elem"
          /\ Len(conn'.chunk) < Len(conn.chunk) /\ conn'.bytesRead > conn.bytesRead
    \/ conn.pc = "elem" /\ conn'.pc = "top" /\ conn.chunk = <<>>
          /\ Len(conn'.bytes) < Len(conn.bytes)
    \/ conn'.pc = "returned" /\ conn'.finalErr # EmptyRedisError

\* C35: ParseRedisClientRequest returns on every input: each round of the loop over the
\* input and of parseArray's loop consumes at least one byte of what is left or ends
\* the decode with a fault, and every call reaches its return.
C35_Terminates ==
    /\ [][Running => Progress]_vars
    /\ (conn.pc = "top") ~> (conn.pc = "returned")
C35_Witness ==
    /\ conn.pc = "returned" /\ conn.finalErr = EmptyRedisError
    /\ Len(conn.commands) = 2 /\ Len(conn.commands[2]) = 1
    /\ conn.totalBytes = Len(conn.input)

\* C36: at every moment the sends of a key k that were received are at most the
\* insertKey calls made for k: a key is not emitted again after its record was
\* dropped unless it was scheduled again.
C36_EmitsWithinSchedules == \A k \in Keys : obs[k].credit >= 0

\* C37: a step that removes the ttlMap entry of a key that is in the Store is a step in
\* which the send of that key was received: a key whose send failed keeps its entry.
C37_DroppedOnlyWhenDelivered ==
    [][\A k \in Keys :
          (k \in DOMAIN ttlMap /\ k \notin DOMAIN ttlMap' /\ k \in DOMAIN internal) =>
              (cons.pc = "recv" /\ cons' = [pc |-> "got", key |-> k])]_vars

\* C38: whenever the queue mutex is free, every key that has a ttlMap entry occurs in
\* sortedKeys.
C38_RecordsInQueue ==
    mux = "free" => \A k \in DOMAIN ttlMap : k \in Range(sortedKeys)
C38_Witness ==
    /\ mux = "free" /\ sw.pc = "sleep" /\ sw.currSec >= 1
    /\ Cardinality(DOMAIN ttlMap) = 1
    /\ Len(sortedKeys) >= 2
    /\ \E k \in Keys : k \in Range(sortedKeys) /\ k \notin DOMAIN ttlMap

====
